---- MODULE Spec2Model ----
(***************************************************************************)
(* Model of the KumoCMS event reconciliation engine                        *)
(* (src/src/handlers/events/event_processor.py, src/src/common/common.py)  *)
(* and of the DLQ retry coordinator                                        *)
(* (src/src/handlers/events/dlq_retry_processor.py).                       *)
(*                                                                         *)
(* Text values that the code takes apart (S3 keys, file names, document    *)
(* ids) are sequences of one-character strings; enumerated values are      *)
(* plain strings.  A DynamoDB item and a Python dict are functions from    *)
(* field names to values.                                                  *)
(***************************************************************************)
EXTENDS Integers, Sequences, FiniteSets, TLC

VARIABLES
    table,      \* DynamoDB documents table: document_id -> item (present ids only)
    now,        \* logical clock read by datetime.now(UTC)
    pc,         \* per invocation: position in lambda_handler / handle_*_file
    evKey,      \* per invocation: the S3 key of the event
    evObj,      \* per invocation: what s3.get_object returned
    existing,   \* per invocation: what get_existing_record returned
    attempt,    \* per invocation: attempt index inside retry_with_backoff
    nEvents,    \* number of events delivered so far
    creates,    \* history: per document_id, number of successful conditional puts
    log,        \* history: the invocations in the order they ended, each with the
                \* statusCode lambda_handler returned, whether the invocation
                \* ended with an error instead of a returned result, and the
                \* number of attempts of retry_as_update it made
    began,      \* history: per invocation, Len(log) when it started
    createTry,  \* history: per invocation, outcome of its conditional put
    lastWrite,  \* history: the event whose invocation last wrote the table
    sqs,        \* the four source DLQs: queue index -> set of messages
    manual,     \* the manual-check DLQ: set of messages sent to it
    sweepPc,    \* dlq_retry_processor.lambda_handler: position of the sweep
    qi,         \* index in queues_to_process of the queue being processed
    batch,      \* messages received by process_queue and not yet processed
    results,    \* the results dict of the running process_queue
    all_results,\* the summaries of the queues processed so far in this sweep
    response,   \* what the sweep returned (NoResponse while one runs)
    nextMid,    \* next SQS MessageId
    nUnits,     \* number of units that arrived on a source queue so far
    startRc,    \* history: per unit, the retry count it arrived with
    dispatches, \* history: per unit, number of lambda_client.invoke calls
    fails,      \* history: per unit, number of failed dispatches
    lastTarget, \* history: how the target handler of the last dispatch of the
                \* running process_queue ended ("none" before the first)
    received,   \* history: number of messages the running process_queue received
    nFaults,    \* number of SQS calls that failed so far
    queue_url,  \* per entry of queues_to_process: whether its queue URL is set
    objClass,   \* storage class the handlers last gave the document's object
                \* ("none" while the bucket has no such object)
    s3calls,    \* history: number of copy_object and restore_object calls issued
    apiResp,    \* what the last archive or restore request returned, with the
                \* history of the calls it made
    apiBefore,  \* history: the table as the last request found it
    nOps,       \* number of lifecycle requests and events so far
    objRestore, \* restore state of the document's object in the bucket:
                \* "none", "ongoing" or "done"
    lastEvent,  \* history: the last request or event handled, and whether it
                \* was a restore-completed event delivered twice in a row
    readResp,   \* what the last retrieve request returned, with the outcome
                \* of its head_object calls
    rpc,        \* retry_with_backoff: "idle", "loop", "returned" or "raised"
    rmax,       \* retry_with_backoff: max_attempts
    rinit,      \* retry_with_backoff: initial_delay
    rattempt,   \* retry_with_backoff: the loop variable attempt
    rdelay,     \* retry_with_backoff: delay
    rlast,      \* retry_with_backoff: last_exception ("" for None)
    rout,       \* retry_with_backoff: what it returned or raised
    rcalls,     \* history: number of calls of func
    rexc,       \* history: the exceptions func raised, in order
    rwaits,     \* history: the arguments of time.sleep, in order
    hpc,        \* per concurrent API invocation: position in lambda_handler
    hop,        \* per concurrent API invocation: "archive" or "restore"
    hdoc,       \* per concurrent API invocation: the item get_item returned
    hresp,      \* per concurrent API invocation: the statusCode it returned
    logical,    \* a logical document: the prefix, id and extension of its keys
    derived     \* per form of key of the logical document handled so far: the
                \* document_id its handler derived

recVars == <<table, pc, evKey, evObj, existing, attempt,
             nEvents, creates, log, began, createTry, lastWrite>>

dlqVars == <<sqs, manual, sweepPc, qi, batch, results, all_results, response,
             nextMid, nUnits, startRc, dispatches, fails, lastTarget, received, nFaults,
             queue_url>>

apiVars == <<objClass, s3calls, apiResp, apiBefore, nOps, objRestore, lastEvent,
             readResp>>

retryVars == <<rpc, rmax, rinit, rattempt, rdelay, rlast, rout, rcalls, rexc, rwaits>>

conVars == <<hpc, hop, hdoc, hresp>>

idVars == <<logical, derived>>

vars == <<now, recVars, dlqVars, apiVars, retryVars, conVars, idVars>>

----------------------------------------------------------------------------
(* Bounds *)

MaxEvents == 3
NumWorkers == 2
MaxUnits == 1
MaxFaults == 1
MaxOps == 3
MaxTried == 3
MaxLoad == 11
MaxIdLen == 3

Workers == 1..NumWorkers

----------------------------------------------------------------------------
(* Python helpers on text *)

\* str.endswith
EndsWith(s, suf) ==
    /\ Len(s) >= Len(suf)
    /\ SubSeq(s, Len(s) - Len(suf) + 1, Len(s)) = suf

\* str.rfind as a 1-based index, 0 when the character does not occur
RECURSIVE RFindFrom(_, _, _)
RFindFrom(s, c, i) ==
    IF i = 0 THEN 0
    ELSE IF s[i] = c THEN i
    ELSE RFindFrom(s, c, i - 1)

RFind(s, c) == RFindFrom(s, c, Len(s))

\* key.split("/")[-1]
Basename(s3key) == SubSeq(s3key, RFind(s3key, "/") + 1, Len(s3key))

\* pathlib.Path(filename).stem; Path(".") is the empty path, whose stem is ""
Stem(filename) ==
    LET i == RFind(filename, ".")
    IN  IF filename = <<".">> THEN <<>>
        ELSE IF i > 1 /\ i < Len(filename) THEN SubSeq(filename, 1, i - 1)
        ELSE filename

extract_file_id(s3key) == Stem(Basename(s3key))

META_SUFFIX == <<".", "m", "e", "t", "a", ".", "j", "s", "o", "n">>

\* key[:-10]
StripMetaSuffix(key) == SubSeq(key, 1, Len(key) - 10)

----------------------------------------------------------------------------
(* Python dicts and the DynamoDB table *)

EmptyDict == [k \in {} |-> 0]

\* {**d, **u}
Merge(d, u) ==
    [k \in DOMAIN d \cup DOMAIN u |-> IF k \in DOMAIN u THEN u[k] ELSE d[k]]

\* Python truthiness of dict.get(k) for text values
Truthy(d, k) == k \in DOMAIN d /\ d[k] # <<>>

NotFound == [found |-> FALSE, item |-> EmptyDict]

\* table.get_item(Key={"document_id": id}).get("Item")
get_existing_record(tbl, document_id) ==
    IF document_id \in DOMAIN tbl
    THEN [found |-> TRUE, item |-> tbl[document_id]]
    ELSE NotFound

\* the item put_item writes: {"document_id": document_id, **record_data}
PutItemOf(document_id, record_data) ==
    Merge([document_id |-> document_id], record_data)

\* a put_item without its ConditionExpression never fails the condition
PutConditionFails_Unconditional(tbl, document_id, record_data) == FALSE

\* table.put_item(Item=item, ConditionExpression=Attr("document_id").not_exists()):
\* the condition is evaluated on the stored item that has the key of Item
PutConditionFails(tbl, document_id, record_data) ==
    PutItemOf(document_id, record_data)["document_id"] \in DOMAIN tbl

PutItem(tbl, document_id, record_data) ==
    LET item == PutItemOf(document_id, record_data)
        key  == item["document_id"]
    IN  [k \in DOMAIN tbl \cup {key} |-> IF k = key THEN item ELSE tbl[k]]

\* table.update_item rejects a SET on the key attribute (ValidationException)
UpdateRejected(record_data) == "document_id" \in DOMAIN record_data

\* an update that replaces the item by the attributes it names
UpdateItem_Overwrite(tbl, document_id, record_data) ==
    [k \in DOMAIN tbl \cup {document_id} |->
        IF k = document_id THEN Merge([document_id |-> document_id], record_data)
        ELSE tbl[k]]

\* table.update_item(Key, "SET #attr0 = :val0, ..."): writes the named
\* attributes and keeps every other one; creates the item when it is missing
UpdateItem(tbl, document_id, record_data) ==
    LET old == IF document_id \in DOMAIN tbl THEN tbl[document_id]
               ELSE [document_id |-> document_id]
    IN  [k \in DOMAIN tbl \cup {document_id} |->
            IF k = document_id THEN Merge(old, record_data) ELSE tbl[k]]

----------------------------------------------------------------------------
(* Inputs: the objects whose creation events are delivered *)

S3_BUCKET == "documents"

ContentKey == <<"d", "/", "a", ".", "p">>
MetaKey == ContentKey \o META_SUFFIX
FolderKey == <<"d", "/">>

EventKeys == {ContentKey, MetaKey, FolderKey}

QUOTE == "\""

\* metadata payloads (parsed meta.json bodies): open mappings, no fixed schema
Payloads ==
    { [author |-> "x"],
      [author |-> "x", file_name |-> <<"R">>],
      [file_name |-> <<>>],
      [s3key |-> <<"o", ".", "p">>],
      [document_id |-> <<"z">>] }

\* what s3.get_object can return for a key
ContentObjects ==
    { [ContentType |-> "application/pdf", ContentLength |-> 1024,
       ETag |-> <<QUOTE, "e", QUOTE>>] }

MetaObjects == { [Body |-> p, ETag |-> <<QUOTE, "m", QUOTE>>] : p \in Payloads }

\* a handler that takes no key for a directory marker
IsFolder_Never(key) == FALSE

\* key.endswith("/")
IsFolder(key) == EndsWith(key, <<"/">>)
IsMeta(key) == EndsWith(key, META_SUFFIX)

ObjectsAt(key) == IF IsMeta(key) THEN MetaObjects ELSE ContentObjects

\* str.strip('"') on an ETag
RECURSIVE LStrip(_, _)
LStrip(s, c) == IF s # <<>> /\ Head(s) = c THEN LStrip(Tail(s), c) ELSE s
RECURSIVE RStrip(_, _)
RStrip(s, c) ==
    IF s # <<>> /\ s[Len(s)] = c THEN RStrip(SubSeq(s, 1, Len(s) - 1), c) ELSE s
Strip(s, c) == RStrip(LStrip(s, c), c)

\* document_id as each handler derives it from the key
DocId(key) ==
    IF IsMeta(key) THEN extract_file_id(StripMetaSuffix(key))
    ELSE extract_file_id(key)

\* every id an item can be stored under
Ids == {DocId(k) : k \in EventKeys \ {FolderKey}}
           \cup {p["document_id"] : p \in {q \in Payloads : "document_id" \in DOMAIN q}}

----------------------------------------------------------------------------
(* The dicts the two handlers write *)

\* handle_regular_file: the fields common to update_data and record_data
ContentFields(key, obj, t) ==
    [s3key |-> key,
     s3bucket |-> S3_BUCKET,
     content_type |-> obj.ContentType,
     size |-> obj.ContentLength,
     etag |-> Strip(obj.ETag, QUOTE),
     updateddatetime |-> t,
     has_file |-> "yes"]

\* an update_data that takes file_name from the key whatever the record holds
ContentUpdateData_AlwaysName(key, obj, ex, t) ==
    Merge(ContentFields(key, obj, t), [file_name |-> Basename(key)])

\* handle_regular_file update_data (also in retry_as_update)
ContentUpdateData(key, obj, ex, t) ==
    IF ~Truthy(ex.item, "file_name")
    THEN Merge(ContentFields(key, obj, t), [file_name |-> Basename(key)])
    ELSE ContentFields(key, obj, t)

\* handle_regular_file record_data
ContentRecordData(key, obj, t) ==
    Merge([document_id |-> DocId(key), file_name |-> Basename(key)],
          ContentFields(key, obj, t))

\* handle_meta_json_file update_data (also in retry_as_update)
MetaUpdateData(key, obj, t) ==
    Merge([meta_s3key |-> key, meta_json_timestamp |-> t, has_metadata |-> "yes"],
          obj.Body)

\* handle_meta_json_file record_data
MetaRecordData(key, obj, t) ==
    Merge([document_id |-> DocId(key), meta_s3key |-> key,
           meta_json_timestamp |-> t, has_metadata |-> "yes"],
          obj.Body)

UpdateData(key, obj, ex, t) ==
    IF IsMeta(key) THEN MetaUpdateData(key, obj, t)
    ELSE ContentUpdateData(key, obj, ex, t)

RecordData(key, obj, t) ==
    IF IsMeta(key) THEN MetaRecordData(key, obj, t)
    ELSE ContentRecordData(key, obj, t)

\* retry_with_backoff(retry_as_update, max_attempts=3, initial_delay=0.5)
MAX_ATTEMPTS == 3

----------------------------------------------------------------------------
(* State *)

NoObj == [ContentType |-> "", ContentLength |-> 0, ETag |-> <<>>]

RecInit ==
    /\ table = EmptyDict
    /\ pc = [w \in Workers |-> "idle"]
    /\ evKey = [w \in Workers |-> <<>>]
    /\ evObj = [w \in Workers |-> NoObj]
    /\ existing = [w \in Workers |-> NotFound]
    /\ attempt = [w \in Workers |-> 0]
    /\ nEvents = 0
    /\ creates = [i \in Ids |-> 0]
    /\ log = <<>>
    /\ began = [w \in Workers |-> 0]
    /\ createTry = [w \in Workers |-> "none"]
    /\ lastWrite = [key |-> <<>>, obj |-> NoObj]

\* the number of attempts of retry_as_update the invocation of w has made
AttemptsMade(w) ==
    IF pc[w] \in {"retry", "retry_update"} THEN attempt[w] + 1 ELSE 0

\* the invocation ends with a statusCode; ct is the outcome of its conditional
\* put.  The worker is free for the next event.
Ended(w, status, ct) ==
    /\ log' = Append(log, [key |-> evKey[w], obj |-> evObj[w], status |-> status,
                           began |-> began[w], createTry |-> ct,
                           function_error |-> FALSE,
                           attempts |-> AttemptsMade(w)])
    /\ pc' = [pc EXCEPT ![w] = "idle"]
    /\ evKey' = [evKey EXCEPT ![w] = <<>>]
    /\ evObj' = [evObj EXCEPT ![w] = NoObj]
    /\ existing' = [existing EXCEPT ![w] = NotFound]
    /\ attempt' = [attempt EXCEPT ![w] = 0]
    /\ began' = [began EXCEPT ![w] = 0]
    /\ createTry' = [createTry EXCEPT ![w] = "none"]

\* the handler returns its 200 response to lambda_handler
Return200(w, ct) == Ended(w, 200, ct)

\* the handler raises; lambda_handler catches and returns statusCode 500
Raise(w, ct) == Ended(w, 500, ct)

\* a retry_with_backoff that raises at the first failed attempt
AttemptFailed_GivesUp(w) == Raise(w, createTry[w])

\* retry_with_backoff: an attempt of retry_as_update raised
AttemptFailed(w) ==
    IF attempt[w] < MAX_ATTEMPTS - 1
    THEN /\ attempt' = [attempt EXCEPT ![w] = attempt[w] + 1]
         /\ pc' = [pc EXCEPT ![w] = "retry"]
         /\ UNCHANGED <<evKey, evObj, existing, began, createTry, log>>
    ELSE Raise(w, createTry[w])

----------------------------------------------------------------------------
(* lambda_handler of event_processor.py, one invocation per worker *)

\* workers are interchangeable: an event goes to the first free one
Free(w) ==
    /\ pc[w] = "idle"
    /\ \A v \in Workers : v < w => pc[v] # "idle"

\* an event for a key ending in "/" is ignored
FolderEvent(w, key) ==
    /\ Free(w)
    /\ nEvents < MaxEvents
    /\ IsFolder(key)
    /\ nEvents' = nEvents + 1
    /\ log' = Append(log, [key |-> key, obj |-> NoObj, status |-> 200,
                           began |-> Len(log), createTry |-> "none",
                           function_error |-> FALSE, attempts |-> 0])
    /\ UNCHANGED <<table, now, pc, evKey, evObj, existing, attempt, creates,
                   began, createTry, lastWrite>>
    /\ UNCHANGED <<dlqVars, apiVars, retryVars, conVars, idVars>>

\* lambda_handler routes the key; the handler fetches the object and reads
\* existing_record = get_existing_record(table, document_id)
Begin(w, key, obj) ==
    /\ Free(w)
    /\ nEvents < MaxEvents
    /\ ~IsFolder(key)
    /\ obj \in ObjectsAt(key)
    /\ nEvents' = nEvents + 1
    /\ evKey' = [evKey EXCEPT ![w] = key]
    /\ evObj' = [evObj EXCEPT ![w] = obj]
    /\ began' = [began EXCEPT ![w] = Len(log)]
    /\ LET ex == get_existing_record(table, DocId(key))
       IN  /\ existing' = [existing EXCEPT ![w] = ex]
           /\ pc' = [pc EXCEPT ![w] = IF ex.found THEN "update" ELSE "create"]
    /\ UNCHANGED <<table, now, attempt, creates, log, createTry, lastWrite>>
    /\ UNCHANGED <<dlqVars, apiVars, retryVars, conVars, idVars>>

\* if existing_record: create_or_update_record(..., is_update=True)
WriteUpdate(w) ==
    /\ pc[w] = "update"
    /\ LET id   == DocId(evKey[w])
           data == UpdateData(evKey[w], evObj[w], existing[w], now)
       IN  IF UpdateRejected(data)
           THEN /\ Raise(w, createTry[w])
                /\ UNCHANGED <<table, lastWrite>>
           ELSE /\ table' = UpdateItem(table, id, data)
                /\ lastWrite' = [key |-> evKey[w], obj |-> evObj[w]]
                /\ Return200(w, createTry[w])
    /\ now' = now + 1
    /\ UNCHANGED <<nEvents, creates>>
    /\ UNCHANGED <<dlqVars, apiVars, retryVars, conVars, idVars>>

\* else: create_or_update_record(..., is_update=False); a failed condition
\* enters retry_with_backoff(retry_as_update)
WriteCreate(w) ==
    /\ pc[w] = "create"
    /\ LET id   == DocId(evKey[w])
           data == RecordData(evKey[w], evObj[w], now)
           key  == PutItemOf(id, data)["document_id"]
       IN  IF PutConditionFails(table, id, data)
           THEN /\ pc' = [pc EXCEPT ![w] = "retry"]
                /\ attempt' = [attempt EXCEPT ![w] = 0]
                /\ createTry' = [createTry EXCEPT ![w] = "ccf"]
                /\ UNCHANGED <<table, creates, lastWrite, log, evKey, evObj,
                               existing, began>>
           ELSE /\ table' = PutItem(table, id, data)
                /\ creates' = [creates EXCEPT ![key] = creates[key] + 1]
                /\ lastWrite' = [key |-> evKey[w], obj |-> evObj[w]]
                /\ Return200(w, "ok")
    /\ now' = now + 1
    /\ UNCHANGED nEvents
    /\ UNCHANGED <<dlqVars, apiVars, retryVars, conVars, idVars>>

\* retry_as_update: existing = get_existing_record(table, document_id)
RetryRead(w) ==
    /\ pc[w] = "retry"
    /\ LET ex == get_existing_record(table, DocId(evKey[w]))
       IN  IF ex.found
           THEN /\ existing' = [existing EXCEPT ![w] = ex]
                /\ pc' = [pc EXCEPT ![w] = "retry_update"]
                /\ UNCHANGED <<attempt, log, evKey, evObj, began, createTry>>
           ELSE AttemptFailed(w)
    /\ UNCHANGED <<table, now, nEvents, creates, lastWrite>>
    /\ UNCHANGED <<dlqVars, apiVars, retryVars, conVars, idVars>>

\* retry_as_update: create_or_update_record(..., is_update=True)
RetryUpdate(w) ==
    /\ pc[w] = "retry_update"
    /\ LET id   == DocId(evKey[w])
           data == UpdateData(evKey[w], evObj[w], existing[w], now)
       IN  IF UpdateRejected(data)
           THEN /\ AttemptFailed(w)
                /\ UNCHANGED <<table, lastWrite>>
           ELSE /\ table' = UpdateItem(table, id, data)
                /\ lastWrite' = [key |-> evKey[w], obj |-> evObj[w]]
                /\ Return200(w, "ccf_updated")
    /\ now' = now + 1
    /\ UNCHANGED <<nEvents, creates>>
    /\ UNCHANGED <<dlqVars, apiVars, retryVars, conVars, idVars>>

----------------------------------------------------------------------------
(* The handlers when S3 or DynamoDB fail *)

\* s3.get_object raises: the handler logs and re-raises, lambda_handler catches
\* the exception and returns statusCode 500
GetObjectFails(w, key) ==
    /\ Free(w)
    /\ nEvents < MaxEvents
    /\ ~IsFolder(key)
    /\ nEvents' = nEvents + 1
    /\ log' = Append(log, [key |-> key, obj |-> NoObj, status |-> 500,
                           began |-> Len(log), createTry |-> "none",
                           function_error |-> FALSE, attempts |-> 0])
    /\ UNCHANGED <<table, now, pc, evKey, evObj, existing, attempt, creates,
                   began, createTry, lastWrite>>
    /\ UNCHANGED <<dlqVars, apiVars, retryVars, conVars, idVars>>

\* put_item or update_item raises a ClientError that is not the failed
\* condition: no inline retry, the handler re-raises, lambda_handler returns
\* statusCode 500
WriteFails(w) ==
    /\ pc[w] \in {"update", "create"}
    /\ Raise(w, createTry[w])
    /\ now' = now + 1
    /\ UNCHANGED <<table, nEvents, creates, lastWrite>>
    /\ UNCHANGED <<dlqVars, apiVars, retryVars, conVars, idVars>>

----------------------------------------------------------------------------
(* dlq_retry_processor.py: messages, queues and the dispatch to the target *)

MAX_RETRY_ATTEMPTS == 3

\* MaxNumberOfMessages of receive_message
RECEIVE_MAX == 10

\* retry counts a message can carry when it arrives on a source queue
StartCounts == {2, 3, 4}

DIGITS == <<"0", "1", "2", "3", "4", "5", "6", "7", "8", "9">>

\* str(n) for a natural number
RECURSIVE StrOfNat(_)
StrOfNat(n) ==
    IF n < 10 THEN <<DIGITS[n + 1]>>
    ELSE StrOfNat(n \div 10) \o <<DIGITS[(n % 10) + 1]>>

\* int(s) for a decimal numeral
RECURSIVE IntOfStr(_)
IntOfStr(s) ==
    IF s = <<>> THEN 0
    ELSE 10 * IntOfStr(SubSeq(s, 1, Len(s) - 1))
            + (CHOOSE d \in 0..9 : DIGITS[d + 1] = s[Len(s)])

\* the attribute process_dlq_message attaches to a re-enqueued message
RetryAttr(n) == [RetryCount |-> [StringValue |-> StrOfNat(n), DataType |-> "Number"]]

get_retry_count(message) ==
    IF "RetryCount" \in DOMAIN message.MessageAttributes
    THEN IntOfStr(message.MessageAttributes["RetryCount"].StringValue)
    ELSE 0

\* a retry_count > MAX_RETRY_ATTEMPTS test lets a unit at the ceiling through
CeilingReached_Above(retry_count) == retry_count > MAX_RETRY_ATTEMPTS

\* retry_count >= MAX_RETRY_ATTEMPTS
CeilingReached(retry_count) == retry_count >= MAX_RETRY_ATTEMPTS

\* a new_retry_count that is not incremented
NewRetryCount_Same(retry_count) == retry_count

\* new_retry_count = retry_count + 1
NewRetryCount(retry_count) == retry_count + 1

queues_to_process ==
    << [name |-> "EventBridge-ObjectCreated-DLQ", target |-> "event_processor",
        sync |-> FALSE],
       [name |-> "EventBridge-ObjectRestored-DLQ", target |-> "restore_event_processor",
        sync |-> FALSE],
       [name |-> "Lambda-EventProcessor-DLQ", target |-> "event_processor",
        sync |-> TRUE],
       [name |-> "Lambda-RestoreProcessor-DLQ", target |-> "restore_event_processor",
        sync |-> TRUE] >>

Queues == 1..Len(queues_to_process)

Units == 1..MaxUnits

\* a message body: JSON text of a value, or text json.loads rejects
JsonDumps(value) == [json |-> TRUE, value |-> value]

StartAttrs == {EmptyDict} \cup {RetryAttr(n) : n \in StartCounts}

\* what lambda_client.invoke can do: the API call fails, or it is accepted and
\* the target handler succeeds, returns a 500 response, or ends with an error
Outcomes ==
    {[api |-> "error", target |-> "none"]}
        \cup {[api |-> "ok", target |-> t] : t \in {"ok", "returned_500", "raised"}}

\* the try block around lambda_client.invoke raises: the API call failed, or
\* the synchronous response carries FunctionError
DispatchFails(is_sync, out) ==
    \/ out.api = "error"
    \/ is_sync /\ out.target = "raised"

\* whether the target handler processed the payload with success
TargetFailed(out) == IF out.target = "ok" THEN "ok" ELSE "failed"

\* str(e) of the exception of a failed dispatch
DispatchError(out) ==
    IF out.api = "error" THEN "invoke failed" ELSE "Lambda invocation failed"

\* the message send_to_manual_check sends
ManualMessage(message_body, error_message, source_queue, retry_count, t, mid) ==
    [MessageId |-> mid,
     Body |-> JsonDumps([original_message |-> message_body,
                         error |-> error_message,
                         source_queue |-> source_queue,
                         retry_count |-> retry_count,
                         failed_at |-> t,
                         requires_manual_review |-> TRUE]),
     MessageAttributes |->
        [SourceQueue |-> [StringValue |-> source_queue, DataType |-> "String"],
         RetryCount |-> [StringValue |-> StrOfNat(retry_count), DataType |-> "Number"],
         ErrorType |-> [StringValue |-> "MaxRetriesExceeded", DataType |-> "String"]]]

EmptyResults(queue_name) ==
    [queue_name |-> queue_name, processed |-> 0, retried |-> 0,
     moved_to_manual |-> 0, errors |-> 0]

\* an accounting in which a message whose processing failed is not counted
Account_ErrorsEscape(res, status) ==
    [res EXCEPT !.processed = IF status = "error" THEN @ ELSE @ + 1,
                !.retried = IF status = "retried" THEN @ + 1 ELSE @,
                !.moved_to_manual = IF status = "moved_to_manual_check" THEN @ + 1 ELSE @]

\* process_queue: processed += 1, then the counter of the returned status
Account(res, status) ==
    [res EXCEPT !.processed = @ + 1,
                !.retried = IF status = "retried" THEN @ + 1 ELSE @,
                !.moved_to_manual = IF status = "moved_to_manual_check" THEN @ + 1 ELSE @,
                !.errors = IF status = "error" THEN @ + 1 ELSE @]

RECURSIVE SumOf(_, _)
SumOf(rs, field) ==
    IF rs = <<>> THEN 0 ELSE rs[1][field] + SumOf(Tail(rs), field)

\* the dict lambda_handler returns
Summary(rs) ==
    [statusCode |-> 200,
     total_processed |-> SumOf(rs, "processed"),
     total_retried |-> SumOf(rs, "retried"),
     total_moved_to_manual |-> SumOf(rs, "moved_to_manual"),
     total_errors |-> SumOf(rs, "errors"),
     details |-> rs]

NoResponse == [statusCode |-> 0]

UnitOf(message) == message.Body.value.unit

DlqInit ==
    /\ sqs = [q \in Queues |-> {}]
    /\ manual = {}
    /\ sweepPc = "idle"
    /\ qi = 1
    /\ batch = {}
    /\ results = EmptyResults("")
    /\ all_results = <<>>
    /\ response = NoResponse
    /\ nextMid = 1
    /\ nUnits = 0
    /\ startRc = [u \in Units |-> 0]
    /\ dispatches = [u \in Units |-> 0]
    /\ fails = [u \in Units |-> 0]
    /\ lastTarget = "none"
    /\ received = 0
    /\ nFaults = 0
    /\ queue_url = [q \in Queues |-> TRUE]

----------------------------------------------------------------------------
(* The sweep of dlq_retry_processor.lambda_handler *)

\* a failed event lands on a source queue as a new unit
Arrive(q, attrs, isJson) ==
    /\ nUnits < MaxUnits
    /\ LET u == nUnits + 1
           m == [MessageId |-> nextMid,
                 Body |-> [json |-> isJson, value |-> [unit |-> u]],
                 MessageAttributes |-> attrs]
       IN  /\ sqs' = [sqs EXCEPT ![q] = @ \cup {m}]
           /\ startRc' = [startRc EXCEPT ![u] = get_retry_count(m)]
    /\ nUnits' = nUnits + 1
    /\ nextMid' = nextMid + 1
    /\ UNCHANGED <<now, recVars, apiVars, retryVars, conVars, idVars, queue_url, manual, sweepPc, qi, batch, results, all_results,
                   response, dispatches, fails, lastTarget, received, nFaults>>

\* lambda_handler starts on the first entry of queues_to_process
StartSweep ==
    /\ sweepPc = "idle"
    /\ sweepPc' = "receive"
    /\ qi' = 1
    /\ all_results' = <<>>
    /\ response' = NoResponse
    /\ UNCHANGED <<now, recVars, apiVars, retryVars, conVars, idVars, queue_url, sqs, manual, batch, results, nextMid,
                   nUnits, startRc, dispatches, fails, lastTarget, received, nFaults>>

\* process_queue: the queue URL is empty, the queue is skipped with the
\* results it started with
SkipQueue ==
    /\ sweepPc = "receive"
    /\ ~queue_url[qi]
    /\ batch' = {}
    /\ received' = 0
    /\ results' = EmptyResults(queues_to_process[qi].name)
    /\ sweepPc' = "process"
    /\ UNCHANGED <<now, recVars, apiVars, retryVars, conVars, idVars, queue_url, sqs, manual, qi, all_results, response,
                   nextMid, nUnits, startRc, dispatches, fails, lastTarget, nFaults>>

\* a receive_message without MaxNumberOfMessages
Receive_Unbounded ==
    /\ sweepPc = "receive"
    /\ queue_url[qi]
    /\ \E S \in SUBSET sqs[qi] :
          /\ S = {} => sqs[qi] = {}
          /\ batch' = S
          /\ received' = Cardinality(S)
    /\ results' = EmptyResults(queues_to_process[qi].name)
    /\ sweepPc' = "process"
    /\ UNCHANGED <<now, recVars, apiVars, retryVars, conVars, idVars, queue_url, sqs, manual, qi, all_results, response, nextMid,
                   nUnits, startRc, dispatches, fails, lastTarget, nFaults>>

\* process_queue: sqs.receive_message returns up to 10 of the queue's messages
Receive ==
    /\ sweepPc = "receive"
    /\ queue_url[qi]
    /\ \E S \in SUBSET sqs[qi] :
          /\ Cardinality(S) <= RECEIVE_MAX
          /\ S = {} => sqs[qi] = {}
          /\ batch' = S
          /\ received' = Cardinality(S)
    /\ results' = EmptyResults(queues_to_process[qi].name)
    /\ sweepPc' = "process"
    /\ UNCHANGED <<now, recVars, apiVars, retryVars, conVars, idVars, queue_url, sqs, manual, qi, all_results, response, nextMid,
                   nUnits, startRc, dispatches, fails, lastTarget, nFaults>>

\* process_dlq_message: json.loads(message["Body"]) raises, status "error"
ParseError ==
    /\ sweepPc = "process"
    /\ \E m \in batch :
          /\ ~m.Body.json
          /\ batch' = batch \ {m}
          /\ results' = Account(results, "error")
          /\ UNCHANGED <<now, recVars, apiVars, retryVars, conVars, idVars, queue_url, sqs, manual, sweepPc, qi, all_results, response,
                         nextMid, nUnits, startRc, dispatches, fails, lastTarget,
                         received, nFaults>>

\* process_dlq_message: retry_count >= MAX_RETRY_ATTEMPTS on receipt:
\* send_to_manual_check, delete_message, no invoke
CeilingQuarantine ==
    /\ sweepPc = "process"
    /\ \E m \in batch :
          /\ m.Body.json
          /\ CeilingReached(get_retry_count(m))
          /\ manual' = manual \cup
                {ManualMessage(m.Body.value, "Max retries exceeded",
                               queues_to_process[qi].name, get_retry_count(m), now, nextMid)}
          /\ nextMid' = nextMid + 1
          /\ now' = now + 1
          /\ sqs' = [sqs EXCEPT ![qi] = @ \ {m}]
          /\ batch' = batch \ {m}
          /\ results' = Account(results, "moved_to_manual_check")
          /\ UNCHANGED <<recVars, apiVars, retryVars, conVars, idVars, queue_url, sweepPc, qi, all_results, response, nUnits, startRc,
                         dispatches, fails, lastTarget, received, nFaults>>

\* process_dlq_message: the invoke succeeds, delete_message, status "retried"
DispatchOk(out) ==
    /\ sweepPc = "process"
    /\ \E m \in batch :
          /\ m.Body.json
          /\ ~CeilingReached(get_retry_count(m))
          /\ ~DispatchFails(queues_to_process[qi].sync, out)
          /\ dispatches' = [dispatches EXCEPT ![UnitOf(m)] = @ + 1]
          /\ lastTarget' = TargetFailed(out)
          /\ sqs' = [sqs EXCEPT ![qi] = @ \ {m}]
          /\ batch' = batch \ {m}
          /\ results' = Account(results, "retried")
          /\ UNCHANGED <<now, recVars, apiVars, retryVars, conVars, idVars, queue_url, manual, sweepPc, qi, all_results, response,
                         nextMid, nUnits, startRc, fails, received, nFaults>>

\* process_dlq_message: the invoke fails and new_retry_count reaches the
\* ceiling: send_to_manual_check, delete_message
DispatchFailQuarantine(out) ==
    /\ sweepPc = "process"
    /\ \E m \in batch :
          /\ m.Body.json
          /\ ~CeilingReached(get_retry_count(m))
          /\ DispatchFails(queues_to_process[qi].sync, out)
          /\ CeilingReached(NewRetryCount(get_retry_count(m)))
          /\ dispatches' = [dispatches EXCEPT ![UnitOf(m)] = @ + 1]
          /\ fails' = [fails EXCEPT ![UnitOf(m)] = @ + 1]
          /\ lastTarget' = TargetFailed(out)
          /\ manual' = manual \cup
                {ManualMessage(m.Body.value, DispatchError(out),
                               queues_to_process[qi].name,
                               NewRetryCount(get_retry_count(m)), now, nextMid)}
          /\ nextMid' = nextMid + 1
          /\ now' = now + 1
          /\ sqs' = [sqs EXCEPT ![qi] = @ \ {m}]
          /\ batch' = batch \ {m}
          /\ results' = Account(results, "moved_to_manual_check")
          /\ UNCHANGED <<recVars, apiVars, retryVars, conVars, idVars, queue_url, sweepPc, qi, all_results, response, nUnits, startRc,
                         received, nFaults>>

\* process_dlq_message: the invoke fails below the ceiling: send_message with
\* the incremented RetryCount, delete_message of the original
DispatchFailRequeue(out) ==
    /\ sweepPc = "process"
    /\ \E m \in batch :
          /\ m.Body.json
          /\ ~CeilingReached(get_retry_count(m))
          /\ DispatchFails(queues_to_process[qi].sync, out)
          /\ ~CeilingReached(NewRetryCount(get_retry_count(m)))
          /\ dispatches' = [dispatches EXCEPT ![UnitOf(m)] = @ + 1]
          /\ fails' = [fails EXCEPT ![UnitOf(m)] = @ + 1]
          /\ lastTarget' = TargetFailed(out)
          /\ sqs' = [sqs EXCEPT ![qi] =
                        (@ \ {m}) \cup
                            {[MessageId |-> nextMid,
                              Body |-> JsonDumps(m.Body.value),
                              MessageAttributes |->
                                  RetryAttr(NewRetryCount(get_retry_count(m)))]}]
          /\ nextMid' = nextMid + 1
          /\ batch' = batch \ {m}
          /\ results' = Account(results, "retry_failed")
          /\ UNCHANGED <<now, recVars, apiVars, retryVars, conVars, idVars, queue_url, manual, sweepPc, qi, all_results, response,
                         nUnits, startRc, received, nFaults>>

\* process_queue returns; lambda_handler goes to the next queue or returns
EndQueue ==
    /\ sweepPc = "process"
    /\ batch = {}
    /\ all_results' = Append(all_results, results)
    /\ IF qi < Len(queues_to_process)
       THEN /\ qi' = qi + 1
            /\ sweepPc' = "receive"
            /\ UNCHANGED response
       ELSE /\ qi' = 1
            /\ sweepPc' = "idle"
            /\ response' = Summary(Append(all_results, results))
    /\ lastTarget' = "none"
    /\ UNCHANGED <<now, recVars, apiVars, retryVars, conVars, idVars, queue_url, sqs, manual, batch, results, nextMid, nUnits,
                   startRc, dispatches, fails, received, nFaults>>

----------------------------------------------------------------------------
(* The sweep when SQS calls fail *)

\* the message process_dlq_message puts back on the source queue
Requeued(m) ==
    [MessageId |-> nextMid,
     Body |-> JsonDumps(m.Body.value),
     MessageAttributes |-> RetryAttr(NewRetryCount(get_retry_count(m)))]

\* retry_count >= MAX_RETRY_ATTEMPTS on receipt: send_to_manual_check returns
\* False when its send fails, delete_message follows either way; a failed
\* delete raises to the outer except, status "error"
CeilingBranch(m, qname, sendOk, delOk) ==
    [manualAdd |-> IF sendOk
                   THEN {ManualMessage(m.Body.value, "Max retries exceeded", qname,
                                       get_retry_count(m), now, nextMid)}
                   ELSE {},
     sqsAdd |-> {},
     deleted |-> delOk,
     clock |-> TRUE,
     status |-> IF delOk THEN "moved_to_manual_check" ELSE "error",
     faults |-> (IF sendOk THEN 0 ELSE 1) + (IF delOk THEN 0 ELSE 1)]

\* the except branch of the dispatch: quarantine at the ceiling, else
\* send_message then delete_message; a failed send_message or delete_message
\* raises to the outer except, status "error"
FailBranch(m, qname, err, sendOk, delOk) ==
    IF CeilingReached(NewRetryCount(get_retry_count(m)))
    THEN [manualAdd |-> IF sendOk
                        THEN {ManualMessage(m.Body.value, err, qname,
                                            NewRetryCount(get_retry_count(m)),
                                            now, nextMid)}
                        ELSE {},
          sqsAdd |-> {},
          deleted |-> delOk,
          clock |-> TRUE,
          status |-> IF delOk THEN "moved_to_manual_check" ELSE "error",
          faults |-> (IF sendOk THEN 0 ELSE 1) + (IF delOk THEN 0 ELSE 1)]
    ELSE IF sendOk
         THEN [manualAdd |-> {},
               sqsAdd |-> {Requeued(m)},
               deleted |-> delOk,
               clock |-> FALSE,
               status |-> IF delOk THEN "retry_failed" ELSE "error",
               faults |-> IF delOk THEN 0 ELSE 1]
         ELSE [manualAdd |-> {},
               sqsAdd |-> {},
               deleted |-> FALSE,
               clock |-> FALSE,
               status |-> "error",
               faults |-> 1]

\* the effect of a branch of process_dlq_message on the queues and the results
ApplyBranch(m, r, extraFaults) ==
    /\ nFaults + r.faults + extraFaults <= MaxFaults
    /\ manual' = manual \cup r.manualAdd
    /\ sqs' = [sqs EXCEPT ![qi] = (IF r.deleted THEN @ \ {m} ELSE @) \cup r.sqsAdd]
    /\ nextMid' = nextMid + Cardinality(r.manualAdd \cup r.sqsAdd)
    /\ now' = IF r.clock THEN now + 1 ELSE now
    /\ batch' = batch \ {m}
    /\ results' = Account(results, r.status)
    /\ nFaults' = nFaults + r.faults + extraFaults

\* the queues are loaded before the invocation of lambda_handler
ArriveBeforeSweep(q, attrs, isJson) ==
    /\ sweepPc = "idle"
    /\ response = NoResponse
    /\ Arrive(q, attrs, isJson)

\* the one invocation of lambda_handler
StartSweepOnce ==
    /\ response = NoResponse
    /\ StartSweep

\* process_queue: sqs.receive_message raises, errors += 1, no message processed
ReceiveFails ==
    /\ sweepPc = "receive"
    /\ queue_url[qi]
    /\ nFaults < MaxFaults
    /\ batch' = {}
    /\ received' = 0
    /\ results' = [EmptyResults(queues_to_process[qi].name) EXCEPT !.errors = 1]
    /\ sweepPc' = "process"
    /\ nFaults' = nFaults + 1
    /\ UNCHANGED <<now, recVars, apiVars, retryVars, conVars, idVars, queue_url, sqs, manual, qi, all_results, response, nextMid,
                   nUnits, startRc, dispatches, fails, lastTarget>>

\* a unit at the ceiling on receipt, and a call of the quarantine fails
CeilingQuarantineFault(sendOk, delOk) ==
    /\ sweepPc = "process"
    /\ ~(sendOk /\ delOk)
    /\ \E m \in batch :
          /\ m.Body.json
          /\ CeilingReached(get_retry_count(m))
          /\ ApplyBranch(m, CeilingBranch(m, queues_to_process[qi].name, sendOk, delOk), 0)
          /\ UNCHANGED <<recVars, apiVars, retryVars, conVars, idVars, queue_url, sweepPc, qi, all_results, response, nUnits, startRc,
                         dispatches, fails, lastTarget, received>>

\* the invoke fails, and a call of the except branch fails
DispatchFailFault(out, sendOk, delOk) ==
    /\ sweepPc = "process"
    /\ ~(sendOk /\ delOk)
    /\ \E m \in batch :
          /\ m.Body.json
          /\ ~CeilingReached(get_retry_count(m))
          /\ DispatchFails(queues_to_process[qi].sync, out)
          /\ dispatches' = [dispatches EXCEPT ![UnitOf(m)] = @ + 1]
          /\ fails' = [fails EXCEPT ![UnitOf(m)] = @ + 1]
          /\ lastTarget' = TargetFailed(out)
          /\ ApplyBranch(m, FailBranch(m, queues_to_process[qi].name, DispatchError(out),
                                       sendOk, delOk), 0)
          /\ UNCHANGED <<recVars, apiVars, retryVars, conVars, idVars, queue_url, sweepPc, qi, all_results, response, nUnits, startRc,
                         received>>

\* the invoke succeeds and the delete_message that follows it, inside the same
\* try block, raises: the except branch of the dispatch runs
DispatchDeleteFails(out, sendOk, delOk) ==
    /\ sweepPc = "process"
    /\ \E m \in batch :
          /\ m.Body.json
          /\ ~CeilingReached(get_retry_count(m))
          /\ ~DispatchFails(queues_to_process[qi].sync, out)
          /\ dispatches' = [dispatches EXCEPT ![UnitOf(m)] = @ + 1]
          /\ fails' = [fails EXCEPT ![UnitOf(m)] = @ + 1]
          /\ lastTarget' = TargetFailed(out)
          /\ ApplyBranch(m, FailBranch(m, queues_to_process[qi].name, "delete failed",
                                       sendOk, delOk), 1)
          /\ UNCHANGED <<recVars, apiVars, retryVars, conVars, idVars, queue_url, sweepPc, qi, all_results, response, nUnits, startRc,
                         received>>

----------------------------------------------------------------------------
(* One sweep over a loaded queue, the messages taken in list order *)

\* load messages a source queue can hold when the sweep starts
LoadSizes == 0..MaxLoad

\* n messages, one per unit, none of them retried before
LoadedQueue(n) ==
    {[MessageId |-> i, Body |-> JsonDumps([unit |-> i]), MessageAttributes |-> EmptyDict] :
        i \in 1..n}

\* the first queue holds n messages; each queue URL is set or empty
BatchInit ==
    \E n \in LoadSizes, urls \in [Queues -> BOOLEAN] :
       /\ sqs = [q \in Queues |-> IF q = 1 THEN LoadedQueue(n) ELSE {}]
       /\ queue_url = urls
       /\ nUnits = n
       /\ nextMid = n + 1
       /\ manual = {}
       /\ sweepPc = "idle"
       /\ qi = 1
       /\ batch = {}
       /\ results = EmptyResults("")
       /\ all_results = <<>>
       /\ response = NoResponse
       /\ startRc = [u \in 1..MaxLoad |-> 0]
       /\ dispatches = [u \in 1..MaxLoad |-> 0]
       /\ fails = [u \in 1..MaxLoad |-> 0]
       /\ lastTarget = "none"
       /\ received = 0
       /\ nFaults = 0

\* the first message of response["Messages"] that is still to be processed
FirstOf(S) == CHOOSE m \in S : \A n \in S : m.MessageId <= n.MessageId

\* for message in messages: the loop takes the messages in the order of the list
InOrder == batch # {} /\ batch' = batch \ {FirstOf(batch)}

\* receive_message returns as many messages as it may, the oldest first
ReceiveFull ==
    /\ Receive
    /\ batch' = sqs[qi] \/ Cardinality(batch') >= RECEIVE_MAX
    /\ \A m \in batch', n \in sqs[qi] \ batch' : m.MessageId < n.MessageId

DispatchOkInOrder(out) == DispatchOk(out) /\ InOrder

DispatchFailRequeueInOrder(out) == DispatchFailRequeue(out) /\ InOrder

----------------------------------------------------------------------------
(* Storage lifecycle: api/archive.py, api/restore.py, restore_event_processor.py *)

ARCHIVED_CLASSES == {"GLACIER", "DEEP_ARCHIVE"}
RESTORE_TIERS == {"Standard", "Expedited", "Bulk"}
MIN_DAYS == 1
MAX_DAYS == 365

\* the table left by handle_regular_file / handle_meta_json_file run alone on tbl
RunEvent(tbl, key, obj, t) ==
    LET id == DocId(key)
        ex == get_existing_record(tbl, id)
    IN  IF ex.found
        THEN IF UpdateRejected(UpdateData(key, obj, ex, t)) THEN tbl
             ELSE UpdateItem(tbl, id, UpdateData(key, obj, ex, t))
        ELSE IF PutConditionFails(tbl, id, RecordData(key, obj, t)) THEN tbl
             ELSE PutItem(tbl, id, RecordData(key, obj, t))

\* path parameter "id" of a request: the stored document, or no id at all
RequestIds == {DocId(ContentKey), <<>>}

\* request bodies of restore: one that is not JSON, "{}", and days/tier pairs
RestoreBodies ==
    {[json |-> FALSE, opts |-> EmptyDict], [json |-> TRUE, opts |-> EmptyDict]}
        \cup {[json |-> TRUE, opts |-> [days |-> d, tier |-> t]] :
                 d \in {0, 1, 365, 366}, t \in RESTORE_TIERS \cup {"Fast"}}

\* how s3.copy_object ends
CopyOutcomes == {"ok", "Exception"}

\* how s3.restore_object ends: the two ClientError classes the handler tells
\* apart, and an exception that is not a ClientError
RestoreOutcomes == {"ok", "RestoreAlreadyInProgress", "ClientError", "Exception"}

\* a meta.json body that carries lifecycle fields into the record
TierPayloads == {[storage_class |-> "DEEP_ARCHIVE"]}

\* the arguments of the S3 call of a request; NoCall when it made none
NoCall == [api |-> "none", Key |-> <<>>, Days |-> 0, Tier |-> ""]

\* no request yet. A response is kept with its number in the order of the
\* requests and events (seq), how the S3 call of the request ended (store:
\* "none" when it made none) and how its update_item ended (update)
NoApiResp ==
    [seq |-> 0, op |-> "none", statusCode |-> 0, error |-> "", store |-> "none",
     update |-> "none", call |-> NoCall]

NoEvent == [kind |-> "none", expiry |-> "", replay |-> FALSE]

\* a request or event that is not a restore-completed event
OtherEvent(kind) == [kind |-> kind, expiry |-> "", replay |-> FALSE]

\* no retrieve request yet
NoReadResp ==
    [seq |-> 0, op |-> "none", statusCode |-> 0, error |-> "", granted |-> FALSE,
     docs |-> EmptyDict, heads |-> EmptyDict]

ApiInit ==
    /\ objClass = "none"
    /\ s3calls = 0
    /\ apiResp = NoApiResp
    /\ apiBefore = EmptyDict
    /\ nOps = 0
    /\ objRestore = "none"
    /\ lastEvent = NoEvent
    /\ readResp = NoReadResp

\* document.get(k, default)
GetOr(d, k, default) == IF k \in DOMAIN d THEN d[k] ELSE default

\* current_storage_class = document.get("storage_class", "STANDARD")
StorageClassOf(document) == GetOr(document, "storage_class", "STANDARD")

\* the SET clause of archive's update_item
ArchiveUpdate(t) ==
    [storage_class |-> "GLACIER", archived_date |-> t, updateddatetime |-> t]

\* the SET clause of restore's update_item
RestoreUpdate(days, tier, t) ==
    [restore_status |-> "in_progress", restore_initiated_date |-> t,
     restore_days |-> days, restore_tier |-> tier, updateddatetime |-> t]

\* an update_data that leaves the expiry of the event out
RestoredUpdate_NoExpiry(key, expiry, t) ==
    [s3key |-> key, restore_status |-> "restored", updateddatetime |-> t]

\* handle_restore_file update_data
RestoredUpdate(key, expiry, t) ==
    IF expiry # ""
    THEN [s3key |-> key, restore_status |-> "restored", updateddatetime |-> t,
          restore_expiry |-> expiry]
    ELSE [s3key |-> key, restore_status |-> "restored", updateddatetime |-> t]

\* the table handle_restore_file leaves:
\* create_or_update_record(table, extract_file_id(key), update_data, is_update=True)
handle_restore_file(tbl, key, expiry, t) ==
    UpdateItem(tbl, extract_file_id(key), RestoredUpdate(key, expiry, t))

\* create_response together with what the request did on the way to it
Responded(op, code, error, store, update, tbl) ==
    [resp |-> [seq |-> 0, op |-> op, statusCode |-> code, error |-> error,
               store |-> store, update |-> update, call |-> NoCall],
     table |-> tbl]

\* r, reached after the S3 call with arguments call
Called(call, r) == [r EXCEPT !.resp.call = call]

\* s3key = document.get("s3key", document_id)
S3KeyOf(document, id) == GetOr(document, "s3key", id)

\* s3.copy_object(CopySource=..., Key=s3key, StorageClass="GLACIER", ...)
CopyCall(document, id) ==
    [api |-> "copy_object", Key |-> S3KeyOf(document, id), Days |-> 0, Tier |-> "GLACIER"]

\* a handler that reports a failed update_item to the caller
UpdateFailed_Reported(op, tbl) ==
    Responded(op, 500, "Database error", "ok", "failed", tbl)

\* the S3 call succeeded and update_item raised: the except branch logs the
\* error and the handler goes on to its 200 response
UpdateFailed(op, tbl) == Responded(op, 200, "", "ok", "failed", tbl)

\* an archive whose guard lets every storage class through
ArchiveGuard_Open(document) == FALSE

\* archive.lambda_handler: the already-archived guard
ArchiveGuard(document) == StorageClassOf(document) \in ARCHIVED_CLASSES

\* archive.lambda_handler run on tbl: its response and the table it leaves
ArchiveRun(tbl, id, getOk, copy, updOk, t) ==
    LET doc == get_existing_record(tbl, id)
    IN  IF id = <<>>
        THEN Responded("archive", 400, "Bad Request", "none", "none", tbl)
        ELSE IF ~getOk
        THEN Responded("archive", 500, "Database error", "none", "none", tbl)
        ELSE IF ~doc.found
        THEN Responded("archive", 404, "Document not found", "none", "none", tbl)
        ELSE IF ArchiveGuard(doc.item)
        THEN Responded("archive", 409, "Document already archived", "none", "none", tbl)
        ELSE Called(CopyCall(doc.item, id),
        IF copy # "ok"
        THEN Responded("archive", 500, "Archive failed", copy, "none", tbl)
        ELSE IF ~updOk
        THEN UpdateFailed("archive", tbl)
        ELSE Responded("archive", 200, "", "ok", "ok", UpdateItem(tbl, id, ArchiveUpdate(t))))

\* restore_days = body.get("days", 1); restore_tier = body.get("tier", "Standard")
RestoreDays(body) == GetOr(body.opts, "days", 1)
RestoreTier(body) == GetOr(body.opts, "tier", "Standard")

\* a restore_object call that asks for the default tier whatever the body says
RestoreCall_DefaultTier(document, id, body) ==
    [api |-> "restore_object", Key |-> S3KeyOf(document, id),
     Days |-> RestoreDays(body), Tier |-> "Standard"]

\* s3.restore_object(Key=str(s3key), RestoreRequest={"Days": restore_days,
\*                   "GlacierJobParameters": {"Tier": restore_tier}})
RestoreCall(document, id, body) ==
    [api |-> "restore_object", Key |-> S3KeyOf(document, id),
     Days |-> RestoreDays(body), Tier |-> RestoreTier(body)]

\* a validation that accepts every number of days
DaysValid_Any(days) == TRUE

\* 1 <= restore_days <= 365
DaysValid(days) == MIN_DAYS <= days /\ days <= MAX_DAYS

\* a restore that writes the record before it knows how restore_object ended
RestoreFailed_Written(tbl, id, body, out, code, error, t) ==
    Responded("restore", code, error, out, "none",
              UpdateItem(tbl, id, RestoreUpdate(RestoreDays(body), RestoreTier(body), t)))

\* restore.lambda_handler: the returns of the except branches of restore_object
RestoreFailed(tbl, id, body, out, code, error, t) ==
    Responded("restore", code, error, out, "none", tbl)

\* restore.lambda_handler run on tbl: its response and the table it leaves
RestoreRun(tbl, id, body, getOk, out, updOk, t) ==
    LET doc == get_existing_record(tbl, id)
    IN  IF ~body.json
        THEN Responded("restore", 400, "Invalid JSON", "none", "none", tbl)
        ELSE IF id = <<>>
        THEN Responded("restore", 400, "Bad Request", "none", "none", tbl)
        ELSE IF ~DaysValid(RestoreDays(body))
        THEN Responded("restore", 400, "Invalid restore days", "none", "none", tbl)
        ELSE IF RestoreTier(body) \notin RESTORE_TIERS
        THEN Responded("restore", 400, "Invalid restore tier", "none", "none", tbl)
        ELSE IF ~getOk
        THEN Responded("restore", 500, "Database error", "none", "none", tbl)
        ELSE IF ~doc.found
        THEN Responded("restore", 404, "Not Found", "none", "none", tbl)
        ELSE IF StorageClassOf(doc.item) \notin ARCHIVED_CLASSES
        THEN Responded("restore", 409, "Document not archived", "none", "none", tbl)
        ELSE IF GetOr(doc.item, "restore_status", "") = "in_progress"
        THEN Responded("restore", 409, "Restore in progress", "none", "none", tbl)
        ELSE Called(RestoreCall(doc.item, id, body),
        IF out = "RestoreAlreadyInProgress"
        THEN RestoreFailed(tbl, id, body, out, 409, "Restore already in progress", t)
        ELSE IF out = "ClientError"
        THEN RestoreFailed(tbl, id, body, out, 500, "Restore failed", t)
        ELSE IF out = "Exception"
        THEN RestoreFailed(tbl, id, body, out, 500, "Internal server error", t)
        ELSE IF ~updOk
        THEN UpdateFailed("restore", tbl)
        ELSE Responded("restore", 200, "", "ok", "ok",
                       UpdateItem(tbl, id,
                                  RestoreUpdate(RestoreDays(body), RestoreTier(body), t))))

ApiFrame ==
    UNCHANGED <<pc, evKey, evObj, existing, attempt, nEvents, creates, log, began,
                createTry, lastWrite, dlqVars, retryVars, conVars, idVars>>

\* one request handled from its first line to its return
Handled(r) ==
    /\ nOps < MaxOps
    /\ nOps' = nOps + 1
    /\ now' = now + 1
    /\ apiBefore' = table
    /\ table' = r.table
    /\ apiResp' = [r.resp EXCEPT !.seq = nOps + 1]
    /\ s3calls' = IF r.resp.store = "none" THEN s3calls ELSE s3calls + 1
    /\ lastEvent' = OtherEvent(r.resp.op)
    /\ UNCHANGED readResp
    /\ ApiFrame

\* POST /archive/{id}
Archive(id, getOk, copy, updOk) ==
    LET r == ArchiveRun(table, id, getOk, copy, updOk, now)
    IN  /\ Handled(r)
        /\ objClass' = IF r.resp.store = "ok" THEN "GLACIER" ELSE objClass
        /\ objRestore' = IF r.resp.store = "ok" THEN "none" ELSE objRestore

\* POST /restore/{id}
RequestRestore(id, body, getOk, out, updOk) ==
    LET r == RestoreRun(table, id, body, getOk, out, updOk, now)
    IN  /\ Handled(r)
        /\ objRestore' = IF r.resp.store = "ok" THEN "ongoing" ELSE objRestore
        /\ UNCHANGED objClass

\* event_processor on an object-created event, run from start to end
ObjectCreated(key, obj) ==
    /\ nOps < MaxOps
    /\ nOps' = nOps + 1
    /\ now' = now + 1
    /\ table' = RunEvent(table, key, obj, now)
    /\ objClass' = IF IsMeta(key) THEN objClass ELSE "STANDARD"
    /\ objRestore' = IF IsMeta(key) THEN objRestore ELSE "none"
    /\ lastEvent' = OtherEvent("created")
    /\ UNCHANGED <<s3calls, apiResp, apiBefore, readResp>>
    /\ ApiFrame

\* restore_event_processor.lambda_handler on "Object Restore Completed" for an
\* object of the bucket; S3 restores objects archived by a lifecycle rule or
\* restored from the console as well as those the API archived
RestoreCompleted(key, expiry) ==
    /\ nOps < MaxOps
    /\ objClass # "none"
    /\ nOps' = nOps + 1
    /\ now' = now + 1
    /\ table' = handle_restore_file(table, key, expiry, now)
    /\ objRestore' = "done"
    /\ lastEvent' = [kind |-> "completed", expiry |-> expiry,
                      replay |-> lastEvent.kind = "completed" /\ lastEvent.expiry = expiry]
    /\ UNCHANGED <<objClass, s3calls, apiResp, apiBefore, readResp>>
    /\ ApiFrame

----------------------------------------------------------------------------
(* The read path: api/retrieve.py, and the bucket changing out of band *)

ONGOING_TRUE == "ongoing-request=\"true\""
ONGOING_FALSE == "ongoing-request=\"false\""

\* the x-amz-restore header as a sequence of its parts
RestoreHeader(restore) ==
    IF restore = "ongoing" THEN <<ONGOING_TRUE>>
    ELSE <<ONGOING_FALSE, ", ", "expiry-date=\"exp\"">>

\* 'part' in restore_info
Contains(restore_info, part) ==
    \E i \in 1..Len(restore_info) : restore_info[i] = part

\* what s3.head_object returns for an object: StorageClass is left out for
\* STANDARD, Restore is present once a restore was requested
HeadOf(class, restore) ==
    Merge(IF class = "STANDARD" THEN EmptyDict ELSE [StorageClass |-> class],
          IF restore = "none" THEN EmptyDict ELSE [Restore |-> RestoreHeader(restore)])

HeadOk(meta) == [kind |-> "ok", meta |-> meta]
HeadFailed(kind) == [kind |-> kind, meta |-> EmptyDict]

\* how s3.head_object(Key=key) can end with the bucket as it is: the
\* metadata of the object, NoSuchKey or another error when there is no such
\* object, and another error at any time
HeadOutcomes(key) ==
    IF key = ContentKey /\ objClass # "none"
    THEN {HeadOk(HeadOf(objClass, objRestore)), HeadFailed("ClientError")}
    ELSE {HeadFailed("NoSuchKey"), HeadFailed("ClientError")}

\* s3_metadata.get("StorageClass", "STANDARD")
HeadClass(meta) == GetOr(meta, "StorageClass", "STANDARD")

\* s3_metadata.get("Restore"), <<>> for None
HeadRestore(meta) == GetOr(meta, "Restore", <<>>)

\* create_response of a read, with the documents it carries by document_id
\* and, as history, how the head_object of each record ended
ReadResponded(op, code, error, granted, docs, heads, tbl) ==
    [resp |-> [seq |-> 0, op |-> op, statusCode |-> code, error |-> error,
               granted |-> granted, docs |-> docs, heads |-> heads],
     table |-> tbl]

\* str(raw_original or raw_file_name)
OriginalName(document) ==
    IF Truthy(document, "original_file_name") THEN document["original_file_name"]
    ELSE GetOr(document, "file_name", <<"unknown">>)

\* response_body of a single-document retrieve
ResolveBody(document, storage_class) ==
    Merge(document, [file_name |-> OriginalName(document),
                     presigned_url |-> "url", storage_class |-> storage_class])

\* a retrieve that refuses whenever head_object did not answer
HeadErrorGrants_Never == FALSE

\* except Exception: "Continue anyway, let generate_presigned_url fail if
\* there's a real issue"; generate_presigned_url signs locally and succeeds
HeadErrorGrants == TRUE

\* retrieve.lambda_handler with pathParameters.id: its response
ResolveRun(tbl, id, getOk, head) ==
    LET doc   == get_existing_record(tbl, id)
        heads == [i \in {id} |-> head]
        class == HeadClass(head.meta)
        info  == HeadRestore(head.meta)
        grant(c) == ReadResponded("resolve", 200, "", TRUE,
                                  [i \in {id} |-> ResolveBody(doc.item, c)], heads, tbl)
        refuse(code, error, hs) ==
            ReadResponded("resolve", code, error, FALSE, EmptyDict, hs, tbl)
    IN  IF ~getOk THEN refuse(500, "Retrieval failed", EmptyDict)
        ELSE IF ~doc.found THEN refuse(404, "Document not found", EmptyDict)
        ELSE IF head.kind = "NoSuchKey"
        THEN refuse(404, "File not found in storage", heads)
        ELSE IF head.kind # "ok"
        THEN IF HeadErrorGrants THEN grant("STANDARD")
             ELSE refuse(500, "Retrieval failed", heads)
        ELSE IF class \in ARCHIVED_CLASSES /\ info = <<>>
        THEN refuse(403, "Please call restore api to restore the file first.", heads)
        ELSE IF class \in ARCHIVED_CLASSES /\ Contains(info, ONGOING_TRUE)
        THEN refuse(202, "Restore is in progress. Please try again later.", heads)
        ELSE grant(class)

\* the list path: a record is deleted on any failure of head_object
IsOrphan_AnyFailure(head) == head.kind # "ok"

\* except s3.exceptions.NoSuchKey: table.delete_item(...)
IsOrphan(head) == head.kind = "NoSuchKey"

\* the list path: the document as the response carries it
ListedDoc(document, meta) ==
    LET d1 == IF GetOr(document, "storage_class", "") # HeadClass(meta)
              THEN Merge(document, [storage_class |-> HeadClass(meta)])
              ELSE document
        info == HeadRestore(meta)
        d2 == IF info # <<>>
              THEN IF Contains(info, ONGOING_FALSE)
                   THEN Merge(d1, [restore_status |-> "restored"])
                   ELSE IF Contains(info, ONGOING_TRUE)
                   THEN Merge(d1, [restore_status |-> "in_progress"])
                   ELSE d1
              ELSE IF d1["storage_class"] \in ARCHIVED_CLASSES
              THEN [k \in DOMAIN d1 \ {"restore_status"} |-> d1[k]]
              ELSE d1
    IN  IF "original_file_name" \in DOMAIN d2
        THEN Merge(d2, [file_name |-> d2["original_file_name"]])
        ELSE d2

\* a table without the items of ids
DeleteItems(tbl, ids) == [i \in DOMAIN tbl \ ids |-> tbl[i]]

\* retrieve.lambda_handler without pathParameters.id: scan, then for each
\* record head_object on doc["s3key"]; heads gives the outcome per record,
\* "KeyError" for a record without s3key
ListRun(tbl, scanOk, heads, delOk) ==
    LET orphans == {i \in DOMAIN tbl : IsOrphan(heads[i])}
        valid   == {i \in DOMAIN tbl : heads[i].kind = "ok"}
    IN  IF ~scanOk
        THEN ReadResponded("list", 500, "Retrieval failed", FALSE, EmptyDict, EmptyDict, tbl)
        ELSE IF orphans # {} /\ ~delOk
        THEN ReadResponded("list", 500, "Retrieval failed", FALSE, EmptyDict, heads, tbl)
        ELSE ReadResponded("list", 200, "", FALSE,
                           [i \in valid |-> ListedDoc(tbl[i], heads[i].meta)],
                           heads, DeleteItems(tbl, orphans))

\* every way a head_object can end
AllHeads ==
    {HeadOk(HeadOf(c, r)) : c \in {"STANDARD"} \cup ARCHIVED_CLASSES,
                            r \in {"none", "ongoing", "done"}}
        \cup {HeadFailed("NoSuchKey"), HeadFailed("ClientError"), HeadFailed("KeyError")}

\* heads gives, for each record of tbl, an outcome its head_object can have
\* with the bucket as it is
ListHeads(tbl, heads) ==
    \A i \in DOMAIN heads :
       IF i \in DOMAIN tbl /\ "s3key" \in DOMAIN tbl[i]
       THEN heads[i] \in HeadOutcomes(tbl[i]["s3key"])
       ELSE heads[i] = HeadFailed("KeyError")

\* one read handled from its first line to its return
ReadHandled(r) ==
    /\ nOps < MaxOps
    /\ nOps' = nOps + 1
    /\ now' = now + 1
    /\ apiBefore' = table
    /\ table' = r.table
    /\ readResp' = [r.resp EXCEPT !.seq = nOps + 1]
    /\ lastEvent' = OtherEvent(r.resp.op)
    /\ UNCHANGED <<objClass, objRestore, s3calls, apiResp>>
    /\ ApiFrame

\* GET /retrieve/{id}
Resolve(id, getOk, head) ==
    /\ head \in HeadOutcomes(S3KeyOf(GetOr(table, id, EmptyDict), id))
    /\ ReadHandled(ResolveRun(table, id, getOk, head))

\* GET /retrieve
ListDocuments(scanOk, heads, delOk) ==
    /\ ListHeads(table, heads)
    /\ ReadHandled(ListRun(table, scanOk, [i \in DOMAIN table |-> heads[i]], delOk))

\* a change of the bucket that no handler made
OutOfBandFrame ==
    /\ lastEvent' = OtherEvent("bucket")
    /\ UNCHANGED <<now, table, s3calls, apiResp, apiBefore, nOps, readResp>>
    /\ ApiFrame

\* a lifecycle rule of the bucket moves the object to a cold storage class
LifecycleTransition(class) ==
    /\ objClass = "STANDARD"
    /\ class \in ARCHIVED_CLASSES
    /\ objClass' = class
    /\ objRestore' = "none"
    /\ OutOfBandFrame

\* a restore of the cold object is requested from outside the API
RestoreStarts ==
    /\ objClass \in ARCHIVED_CLASSES
    /\ objRestore = "none"
    /\ objRestore' = "ongoing"
    /\ UNCHANGED objClass
    /\ OutOfBandFrame

\* S3 finishes the restore it was asked for
RestoreFinishes ==
    /\ objRestore = "ongoing"
    /\ objRestore' = "done"
    /\ UNCHANGED objClass
    /\ OutOfBandFrame

\* the object is deleted from the bucket
ObjectRemoved ==
    /\ objClass # "none"
    /\ objClass' = "none"
    /\ objRestore' = "none"
    /\ OutOfBandFrame

----------------------------------------------------------------------------
(* common.retry_with_backoff(func, max_attempts, initial_delay) *)

\* the max_attempts the function is called with
AttemptCounts == 0..MaxTried

\* the initial_delay the function is called with, in units of 0.5 s
InitialDelays == {1, 2, 5}

\* the exceptions func can raise and the values it can return
FuncErrors == {"E1", "E2"}
FuncValues == {"v"}

NoOut == [kind |-> "none", value |-> ""]

RetryInit ==
    /\ rpc = "idle"
    /\ rmax = 0
    /\ rinit = 0
    /\ rattempt = 0
    /\ rdelay = 0
    /\ rlast = ""
    /\ rout = NoOut
    /\ rcalls = 0
    /\ rexc = <<>>
    /\ rwaits = <<>>

RetryFrame == UNCHANGED <<now, recVars, dlqVars, apiVars, conVars, idVars>>

\* a backoff that waits the same delay every time
NextDelay_Same(delay) == delay

\* delay *= 2
NextDelay(delay) == delay * 2

\* delay = initial_delay; last_exception = None; for attempt in range(max_attempts):
RetryCall(max_attempts, initial_delay) ==
    /\ rpc = "idle"
    /\ rpc' = "loop"
    /\ rmax' = max_attempts
    /\ rinit' = initial_delay
    /\ rdelay' = initial_delay
    /\ rattempt' = 0
    /\ UNCHANGED <<rlast, rout, rcalls, rexc, rwaits>>
    /\ RetryFrame

\* try: return func()
FuncReturns(v) ==
    /\ rpc = "loop"
    /\ rattempt < rmax
    /\ rcalls' = rcalls + 1
    /\ rout' = [kind |-> "return", value |-> v]
    /\ rpc' = "returned"
    /\ UNCHANGED <<rmax, rinit, rattempt, rdelay, rlast, rexc, rwaits>>
    /\ RetryFrame

\* func() raised e: the except branch, with its sleep when attempts remain
FuncRaises(e) ==
    /\ rpc = "loop"
    /\ rattempt < rmax
    /\ rcalls' = rcalls + 1
    /\ rexc' = Append(rexc, e)
    /\ rlast' = e
    /\ IF rattempt < rmax - 1
       THEN /\ rwaits' = Append(rwaits, rdelay)
            /\ rdelay' = NextDelay(rdelay)
       ELSE UNCHANGED <<rwaits, rdelay>>
    /\ rattempt' = rattempt + 1
    /\ UNCHANGED <<rpc, rmax, rinit, rout>>
    /\ RetryFrame

\* the loop is over: raise last_exception, or "Unknown error" when there is none
LoopExhausted ==
    /\ rpc = "loop"
    /\ rattempt >= rmax
    /\ rout' = [kind |-> "raise",
                 value |-> IF rlast # "" THEN rlast ELSE "Unknown error in retry_with_backoff"]
    /\ rpc' = "raised"
    /\ UNCHANGED <<rmax, rinit, rattempt, rdelay, rlast, rcalls, rexc, rwaits>>
    /\ RetryFrame

----------------------------------------------------------------------------
(* archive.py and restore.py invoked concurrently: each call of DynamoDB and *)
(* of S3 is a step of its own                                              *)

Invocations == 1..2

ConInit ==
    /\ hpc = [h \in Invocations |-> "idle"]
    /\ hop = [h \in Invocations |-> "none"]
    /\ hdoc = [h \in Invocations |-> EmptyDict]
    /\ hresp = [h \in Invocations |-> 0]

ConFrame ==
    UNCHANGED <<pc, evKey, evObj, existing, attempt, nEvents, creates, log, began,
                createTry, lastWrite, dlqVars, retryVars, idVars, apiResp, apiBefore,
                readResp>>

\* the invocation returns create_response(code, ...)
Returns(h, code) ==
    /\ hpc' = [hpc EXCEPT ![h] = "done"]
    /\ hresp' = [hresp EXCEPT ![h] = code]

\* the invocation goes on to its next call
GoesOn(h, to) ==
    /\ hpc' = [hpc EXCEPT ![h] = to]
    /\ UNCHANGED hresp

\* what s3.restore_object answers for the object as it is: an error for a
\* missing key, RestoreAlreadyInProgress while a restore is ongoing
RestoreAnswer ==
    IF objClass = "none" THEN "ClientError"
    ELSE IF objRestore = "ongoing" THEN "RestoreAlreadyInProgress"
    ELSE "ok"

\* archive.lambda_handler: get_item and the check of storage_class
ArchiveReads(h, id) ==
    /\ hpc[h] \in {"idle", "done"}
    /\ nOps < MaxOps
    /\ nOps' = nOps + 1
    /\ hop' = [hop EXCEPT ![h] = "archive"]
    /\ LET doc == get_existing_record(table, id)
       IN  /\ hdoc' = [hdoc EXCEPT ![h] = doc.item]
           /\ IF ~doc.found THEN Returns(h, 404)
              ELSE IF ArchiveGuard(doc.item) THEN Returns(h, 409)
              ELSE GoesOn(h, "call")
    /\ lastEvent' = OtherEvent("archive")
    /\ UNCHANGED <<now, table, objClass, objRestore, s3calls>>
    /\ ConFrame

\* archive.lambda_handler: s3.copy_object with StorageClass GLACIER
ArchiveCopies(h, copy) ==
    /\ hpc[h] = "call"
    /\ hop[h] = "archive"
    /\ s3calls' = s3calls + 1
    /\ IF copy = "ok"
       THEN /\ objClass' = "GLACIER"
            /\ objRestore' = "none"
            /\ GoesOn(h, "update")
       ELSE /\ UNCHANGED <<objClass, objRestore>>
            /\ Returns(h, 500)
    /\ UNCHANGED <<now, table, nOps, hop, hdoc, lastEvent>>
    /\ ConFrame

\* archive.lambda_handler: update_item, whose failure is logged, and the 200
ArchiveUpdates(h, id, updOk) ==
    /\ hpc[h] = "update"
    /\ hop[h] = "archive"
    /\ table' = IF updOk THEN UpdateItem(table, id, ArchiveUpdate(now)) ELSE table
    /\ now' = now + 1
    /\ Returns(h, 200)
    /\ UNCHANGED <<objClass, objRestore, s3calls, nOps, hop, hdoc, lastEvent>>
    /\ ConFrame

\* restore.lambda_handler: the checks of the body, get_item and the checks of
\* storage_class and restore_status
RestoreReads(h, id, body) ==
    /\ hpc[h] \in {"idle", "done"}
    /\ nOps < MaxOps
    /\ nOps' = nOps + 1
    /\ hop' = [hop EXCEPT ![h] = "restore"]
    /\ LET doc == get_existing_record(table, id)
       IN  /\ hdoc' = [hdoc EXCEPT ![h] = doc.item]
           /\ IF ~body.json \/ ~DaysValid(RestoreDays(body))
                    \/ RestoreTier(body) \notin RESTORE_TIERS
              THEN Returns(h, 400)
              ELSE IF ~doc.found THEN Returns(h, 404)
              ELSE IF StorageClassOf(doc.item) \notin ARCHIVED_CLASSES THEN Returns(h, 409)
              ELSE IF GetOr(doc.item, "restore_status", "") = "in_progress"
              THEN Returns(h, 409)
              ELSE GoesOn(h, "call")
    /\ lastEvent' = OtherEvent("restore")
    /\ UNCHANGED <<now, table, objClass, objRestore, s3calls>>
    /\ ConFrame

\* restore.lambda_handler: s3.restore_object
RestoreCalls(h) ==
    /\ hpc[h] = "call"
    /\ hop[h] = "restore"
    /\ s3calls' = s3calls + 1
    /\ IF RestoreAnswer = "ok"
       THEN /\ objRestore' = "ongoing"
            /\ GoesOn(h, "update")
       ELSE /\ UNCHANGED objRestore
            /\ Returns(h, IF RestoreAnswer = "RestoreAlreadyInProgress" THEN 409 ELSE 500)
    /\ UNCHANGED <<now, table, objClass, nOps, hop, hdoc, lastEvent>>
    /\ ConFrame

\* restore.lambda_handler: update_item, whose failure is logged, and the 200
RestoreUpdates(h, id, body, updOk) ==
    /\ hpc[h] = "update"
    /\ hop[h] = "restore"
    /\ table' = IF updOk
                THEN UpdateItem(table, id,
                                RestoreUpdate(RestoreDays(body), RestoreTier(body), now))
                ELSE table
    /\ now' = now + 1
    /\ Returns(h, 200)
    /\ UNCHANGED <<objClass, objRestore, s3calls, nOps, hop, hdoc, lastEvent>>
    /\ ConFrame

\* S3 completes the ongoing restore and restore_event_processor handles the
\* Object Restore Completed event
RestoreCompletes(key, expiry) ==
    /\ objRestore = "ongoing"
    /\ objRestore' = "done"
    /\ table' = handle_restore_file(table, key, expiry, now)
    /\ now' = now + 1
    /\ lastEvent' = [kind |-> "completed", expiry |-> expiry, replay |-> FALSE]
    /\ UNCHANGED <<objClass, s3calls, nOps, conVars>>
    /\ ConFrame

----------------------------------------------------------------------------
(* Records deleted, and restore events delivered, while creation events run *)

\* delete.lambda_handler on a document that has a record: delete_item
DeleteDocument(id) ==
    /\ nOps < MaxOps
    /\ id \in DOMAIN table
    /\ nOps' = nOps + 1
    /\ table' = DeleteItems(table, {id})
    /\ lastEvent' = OtherEvent("delete")
    /\ UNCHANGED <<now, objClass, objRestore, s3calls, apiResp, apiBefore, readResp>>
    /\ ApiFrame

\* restore_event_processor on an Object Restore Completed event for key,
\* whether or not the document has a record
RestoreEvent(key, expiry) ==
    /\ nOps < MaxOps
    /\ nOps' = nOps + 1
    /\ now' = now + 1
    /\ table' = handle_restore_file(table, key, expiry, now)
    /\ lastEvent' = [kind |-> "completed", expiry |-> expiry, replay |-> FALSE]
    /\ UNCHANGED <<objClass, objRestore, s3calls, apiResp, apiBefore, readResp>>
    /\ ApiFrame

----------------------------------------------------------------------------
(* The document_id the creation handlers derive from the keys of a document *)

IdChars == {"a", "."}

\* the ids a logical document can have: texts of 1..MaxIdLen characters
LogicalIds == UNION {[1..n -> IdChars] : n \in 1..MaxIdLen}

Prefixes == {<<>>, <<"d", "/">>}

Extensions == {<<"p">>, <<"t", "x">>}

\* the forms of key of one logical document
KeyForms == {"content", "meta", "meta_ext"}

\* prefix/id.ext, prefix/id.meta.json and prefix/id.ext.meta.json
KeyOf(doc, form) ==
    IF form = "content" THEN doc.prefix \o doc.id \o <<".">> \o doc.ext
    ELSE IF form = "meta" THEN doc.prefix \o doc.id \o META_SUFFIX
    ELSE doc.prefix \o doc.id \o <<".">> \o doc.ext \o META_SUFFIX

IdInit ==
    /\ logical = [prefix |-> <<"d", "/">>, id |-> <<"a">>, ext |-> <<"p">>]
    /\ derived = EmptyDict

\* lambda_handler routes the event of the key to handle_meta_json_file or to
\* handle_regular_file, which derives the document_id
Derive(form) ==
    /\ form \notin DOMAIN derived
    /\ derived' = derived @@ (form :> DocId(KeyOf(logical, form)))
    /\ UNCHANGED <<now, recVars, dlqVars, apiVars, retryVars, conVars, logical>>

----------------------------------------------------------------------------
(* Specifications *)

Init ==
    /\ now = 1
    /\ RecInit
    /\ DlqInit
    /\ ApiInit
    /\ RetryInit
    /\ ConInit
    /\ IdInit

Next ==
    \/ \E w \in Workers, key \in EventKeys : FolderEvent(w, key)
    \/ \E w \in Workers, key \in EventKeys :
          \E obj \in ObjectsAt(key) : Begin(w, key, obj)
    \/ \E w \in Workers : WriteUpdate(w)
    \/ \E w \in Workers : WriteCreate(w)
    \/ \E w \in Workers : RetryRead(w)
    \/ \E w \in Workers : RetryUpdate(w)

\* the reconciliation engine under concurrent event deliveries
Spec == Init /\ [][Next]_vars

NextFaults ==
    \/ \E w \in Workers, key \in EventKeys : FolderEvent(w, key)
    \/ \E w \in Workers, key \in EventKeys :
          \E obj \in ObjectsAt(key) : Begin(w, key, obj)
    \/ \E w \in Workers, key \in EventKeys : GetObjectFails(w, key)
    \/ \E w \in Workers : WriteUpdate(w)
    \/ \E w \in Workers : WriteCreate(w)
    \/ \E w \in Workers : WriteFails(w)
    \/ \E w \in Workers : RetryRead(w)
    \/ \E w \in Workers : RetryUpdate(w)

\* the reconciliation engine when S3 and DynamoDB calls can fail
SpecFaults == Init /\ [][NextFaults]_vars

NextDLQ ==
    \/ \E q \in Queues, attrs \in StartAttrs, isJson \in BOOLEAN : Arrive(q, attrs, isJson)
    \/ StartSweep
    \/ Receive
    \/ ParseError
    \/ CeilingQuarantine
    \/ \E out \in Outcomes : DispatchOk(out)
    \/ \E out \in Outcomes : DispatchFailQuarantine(out)
    \/ \E out \in Outcomes : DispatchFailRequeue(out)
    \/ EndQueue

\* the retry and quarantine coordinator under repeated sweeps
SpecDLQ == Init /\ [][NextDLQ]_vars

NextDLQFaults ==
    \/ \E q \in Queues, attrs \in StartAttrs, isJson \in BOOLEAN :
          ArriveBeforeSweep(q, attrs, isJson)
    \/ StartSweepOnce
    \/ Receive
    \/ ReceiveFails
    \/ ParseError
    \/ CeilingQuarantine
    \/ \E sendOk, delOk \in BOOLEAN : CeilingQuarantineFault(sendOk, delOk)
    \/ \E out \in Outcomes : DispatchOk(out)
    \/ \E out \in Outcomes : DispatchFailQuarantine(out)
    \/ \E out \in Outcomes : DispatchFailRequeue(out)
    \/ \E out \in Outcomes, sendOk, delOk \in BOOLEAN : DispatchFailFault(out, sendOk, delOk)
    \/ \E out \in Outcomes, sendOk, delOk \in BOOLEAN : DispatchDeleteFails(out, sendOk, delOk)
    \/ EndQueue

\* one invocation of the coordinator on loaded queues when its SQS calls can
\* fail
SpecDLQFaults == Init /\ [][NextDLQFaults]_vars

\* the steps of a running sweep
SweepRuns ==
    \/ Receive
    \/ ParseError
    \/ CeilingQuarantine
    \/ \E out \in Outcomes : DispatchOk(out)
    \/ \E out \in Outcomes : DispatchFailQuarantine(out)
    \/ \E out \in Outcomes : DispatchFailRequeue(out)
    \/ EndQueue

\* the coordinator when the schedule keeps invoking lambda_handler and every
\* invocation runs to its return
SpecDLQFair == SpecDLQ /\ WF_vars(StartSweep) /\ WF_vars(SweepRuns)

NextBatch ==
    \/ StartSweepOnce
    \/ SkipQueue
    \/ ReceiveFull
    \/ \E out \in Outcomes : DispatchOkInOrder(out)
    \/ \E out \in Outcomes : DispatchFailRequeueInOrder(out)
    \/ EndQueue

\* one invocation of the coordinator on a queue that holds more messages than
\* one receive_message returns, with queue URLs that may be empty
InitBatch ==
    /\ now = 1
    /\ RecInit
    /\ BatchInit
    /\ ApiInit
    /\ RetryInit
    /\ ConInit
    /\ IdInit

SpecBatch == InitBatch /\ [][NextBatch]_vars

\* the default body of a restore request
DefaultBody == [json |-> TRUE, opts |-> EmptyDict]

NextConcurrent ==
    \/ \E obj \in ContentObjects : ObjectCreated(ContentKey, obj)
    \/ \E h \in Invocations : ArchiveReads(h, DocId(ContentKey))
    \/ \E h \in Invocations, copy \in CopyOutcomes : ArchiveCopies(h, copy)
    \/ \E h \in Invocations, updOk \in BOOLEAN : ArchiveUpdates(h, DocId(ContentKey), updOk)
    \/ \E h \in Invocations : RestoreReads(h, DocId(ContentKey), DefaultBody)
    \/ \E h \in Invocations : RestoreCalls(h)
    \/ \E h \in Invocations, updOk \in BOOLEAN :
          RestoreUpdates(h, DocId(ContentKey), DefaultBody, updOk)
    \/ \E expiry \in {"", "exp"} : RestoreCompletes(ContentKey, expiry)

\* the lifecycle handlers under concurrent requests and events
SpecConcurrent == Init /\ [][NextConcurrent]_vars

NextDelete ==
    \/ \E w \in Workers, obj \in ContentObjects : Begin(w, ContentKey, obj)
    \/ \E w \in Workers : WriteUpdate(w)
    \/ \E w \in Workers : WriteCreate(w)
    \/ \E w \in Workers : RetryRead(w)
    \/ \E w \in Workers : RetryUpdate(w)
    \/ DeleteDocument(DocId(ContentKey))
    \/ \E expiry \in {"", "exp"} : RestoreEvent(ContentKey, expiry)

\* the content creation handler while the document is deleted and restore
\* events arrive
SpecDelete == Init /\ [][NextDelete]_vars

NextDerive == \E form \in KeyForms : Derive(form)

\* the derivation of document_id for every logical document
InitDerive ==
    /\ now = 1
    /\ RecInit
    /\ DlqInit
    /\ ApiInit
    /\ RetryInit
    /\ ConInit
    /\ \E prefix \in Prefixes, id \in LogicalIds, ext \in Extensions :
          logical = [prefix |-> prefix, id |-> id, ext |-> ext]
    /\ derived = EmptyDict

SpecDerive == InitDerive /\ [][NextDerive]_vars

NextLifecycle ==
    \/ \E obj \in ContentObjects : ObjectCreated(ContentKey, obj)
    \/ \E p \in TierPayloads :
          ObjectCreated(MetaKey, [Body |-> p, ETag |-> <<QUOTE, "m", QUOTE>>])
    \/ \E id \in RequestIds, getOk \in BOOLEAN, copy \in CopyOutcomes, updOk \in BOOLEAN :
          Archive(id, getOk, copy, updOk)
    \/ \E id \in RequestIds, body \in RestoreBodies, getOk \in BOOLEAN,
          out \in RestoreOutcomes, updOk \in BOOLEAN :
          RequestRestore(id, body, getOk, out, updOk)
    \/ \E expiry \in {"", "exp"} : RestoreCompleted(ContentKey, expiry)

SpecLifecycle == Init /\ [][NextLifecycle]_vars

NextRetry ==
    \/ \E max_attempts \in AttemptCounts, initial_delay \in InitialDelays :
          RetryCall(max_attempts, initial_delay)
    \/ \E v \in FuncValues : FuncReturns(v)
    \/ \E e \in FuncErrors : FuncRaises(e)
    \/ LoopExhausted

SpecRetry == Init /\ [][NextRetry]_vars

NextRead ==
    \/ \E obj \in ContentObjects : ObjectCreated(ContentKey, obj)
    \/ \E p \in TierPayloads :
          ObjectCreated(MetaKey, [Body |-> p, ETag |-> <<QUOTE, "m", QUOTE>>])
    \/ \E copy \in CopyOutcomes, updOk \in BOOLEAN :
          Archive(DocId(ContentKey), TRUE, copy, updOk)
    \/ \E updOk \in BOOLEAN :
          RequestRestore(DocId(ContentKey), DefaultBody, TRUE, "ok", updOk)
    \/ \E expiry \in {"", "exp"} : RestoreCompleted(ContentKey, expiry)
    \/ \E getOk \in BOOLEAN, head \in AllHeads : Resolve(DocId(ContentKey), getOk, head)
    \/ \E scanOk \in BOOLEAN, delOk \in BOOLEAN, heads \in [Ids -> AllHeads] :
          ListDocuments(scanOk, heads, delOk)
    \/ \E class \in ARCHIVED_CLASSES : LifecycleTransition(class)
    \/ RestoreStarts
    \/ RestoreFinishes
    \/ ObjectRemoved

SpecRead == Init /\ [][NextRead]_vars


----------------------------------------------------------------------------
(* Sequential semantics of one invocation, for relating orders of events *)

TimestampFields == {"updateddatetime", "meta_json_timestamp"}

\* a table with the timestamps of every item left out
NoTs(tbl) ==
    [i \in DOMAIN tbl |-> [k \in DOMAIN tbl[i] \ TimestampFields |-> tbl[i][k]]]

\* the fields update_data of handle_regular_file always carries
ContentUpdateKeys ==
    {"s3key", "s3bucket", "content_type", "size", "etag", "updateddatetime", "has_file"}

\* the content-derived fields of an item
ContentDerived == {"s3key", "s3bucket", "content_type", "size", "etag", "has_file"}

IsContentKey(key) == key # <<>> /\ ~IsMeta(key) /\ ~IsFolder(key)

\* this step is the successful update_item of invocation w
UpdateStep(w) ==
    /\ pc[w] \in {"update", "retry_update"}
    /\ pc'[w] = "idle"
    /\ log'[Len(log')].status = 200

\* this step ends the processing of invocation w
EndStep(w) == pc[w] # "idle" /\ pc'[w] = "idle"

\* invocation w processes an event that an earlier invocation processed with
\* success before w started
ReplayOf(w) ==
    \E i \in 1..began[w] :
        /\ log[i].key = evKey[w]
        /\ log[i].obj = evObj[w]
        /\ log[i].status = 200

\* exactly one content event and one metadata event were delivered, both
\* invocations have ended with statusCode 200
OneOfEach ==
    /\ nEvents = 2
    /\ Len(log) = 2
    /\ \E i, j \in 1..2 : IsContentKey(log[i].key) /\ IsMeta(log[j].key)
    /\ log[1].status = 200
    /\ log[2].status = 200

----------------------------------------------------------------------------
(* Claims about the reconciliation engine *)

\* C1: after one onContentCreated and one onMetadataCreated for the same
\* document, started with no record and interleaved in any way, exactly one
\* record exists, with has_file = yes, has_metadata = yes and every field
\* written by either path
C1_AtMostOneCreate ==
    OneOfEach =>
        LET id == DocId(ContentKey)
        IN  /\ DOMAIN table = {id}
            /\ \A i \in 1..2 :
                  DOMAIN RecordData(log[i].key, log[i].obj, 0) \subseteq DOMAIN table[id]
            /\ table[id]["has_file"] = "yes"
            /\ table[id]["has_metadata"] = "yes"

\* C2: when both creation paths found no record and both attempted the
\* conditional create, exactly one create succeeded and the other path took
\* the conditional-check failure, re-read, updated and returned 200
C2_RaceLoserUpdates ==
    ( /\ nEvents = 2
      /\ Len(log) = 2
      /\ \E i, j \in 1..2 : IsContentKey(log[i].key) /\ IsMeta(log[j].key)
      /\ log[1].createTry # "none" /\ log[2].createTry # "none" )
    => \E i \in 1..2 :
          /\ log[i].createTry = "ok"
          /\ log[3 - i].createTry = "ccf_updated"
          /\ log[3 - i].status = 200

\* C3: content-then-metadata leaves the same record, timestamps excluded, as
\* metadata-then-content: the table left by two events run one after the other
\* equals the table the opposite order leaves
C3_Commutativity ==
    (OneOfEach /\ log[2].began = 1) =>
        NoTs(table) =
            NoTs(RunEvent(RunEvent(EmptyDict, log[2].key, log[2].obj, 1),
                          log[1].key, log[1].obj, 2))

\* C4: an invocation that replays an event already processed with success,
\* on the table as that event's write left it, leaves exactly one record for
\* the document_id and changes no field but timestamps
C4_ReplayIdempotent ==
    [][\A w \in Workers :
          ( /\ EndStep(w)
            /\ ReplayOf(w)
            /\ lastWrite = [key |-> evKey[w], obj |-> evObj[w]] )
          => /\ NoTs(table') = NoTs(table)
             /\ DocId(evKey[w]) \in DOMAIN table']_vars

C7_MetaUpdateFrame ==
    [][\A w \in Workers :
          (UpdateStep(w) /\ IsMeta(evKey[w]) /\ DocId(evKey[w]) \in DOMAIN table)
          => LET id == DocId(evKey[w])
             IN  /\ table'[id]["has_metadata"] = "yes"
                 /\ \A k \in DOMAIN evObj[w].Body : table'[id][k] = evObj[w].Body[k]
                 /\ \A k \in ContentDerived \cap DOMAIN table[id] :
                       table'[id][k] = table[id][k]]_vars

\* C8: the content path never replaces a display name the record holds: its
\* update leaves a non-empty file_name as it is
C8_DisplayNameKept ==
    [][\A w \in Workers :
          ( /\ UpdateStep(w)
            /\ IsContentKey(evKey[w])
            /\ DocId(evKey[w]) \in DOMAIN table
            /\ Truthy(table[DocId(evKey[w])], "file_name") )
          => table'[DocId(evKey[w])]["file_name"]
                 = table[DocId(evKey[w])]["file_name"]]_vars

\* C14: an invocation that ended on an error other than the conditional-create
\* race ended as a failure seen by its invoker, never as a returned result
C14_ErrorsSurface ==
    \A i \in 1..Len(log) :
        (log[i].status # 200 /\ log[i].createTry # "ccf") => log[i].function_error

----------------------------------------------------------------------------
(* Claims about the retry and quarantine coordinator *)

\* the messages of unit u on the source queues
UnitMsgs(u) == {m \in UNION {sqs[q] : q \in Queues} : UnitOf(m) = u}

\* the manual-check messages that carry unit u
Quarantined(u) == {e \in manual : e.Body.value.original_message.unit = u}

\* every retry count unit u is held with, on a source queue or in quarantine
RcSet(u) ==
    {get_retry_count(m) : m \in UnitMsgs(u)}
        \cup {e.Body.value.retry_count : e \in Quarantined(u)}

C10_RetryCountSteps ==
    [][\A u \in 1..nUnits :
          /\ dispatches'[u] # dispatches[u] =>
                \E m \in batch \ batch' :
                    /\ UnitOf(m) = u
                    /\ dispatches'[u] = dispatches[u] + 1
                    /\ get_retry_count(m) < MAX_RETRY_ATTEMPTS
                    /\ fails'[u] # fails[u] =>
                          /\ fails'[u] = fails[u] + 1
                          /\ RcSet(u)' = {get_retry_count(m) + 1}
          /\ \A a \in RcSet(u) : \A b \in RcSet(u)' : b >= a]_vars

\* a failed dispatch has put the unit back with a count raised by 1
C10_Witness ==
    \E u \in 1..nUnits :
        /\ fails[u] = 1
        /\ \E m \in UnitMsgs(u) : get_retry_count(m) = startRc[u] + 1

\* C13: a dispatch whose target handler failed while processing is a failed
\* dispatch: the coordinator does not count it as retried and does not delete
\* the unit as done, in synchronous and in asynchronous mode
C13_TargetFailureIsFailedDispatch ==
    [][\A u \in Units :
          (dispatches'[u] = dispatches[u] + 1 /\ lastTarget' = "failed") =>
              /\ fails'[u] = fails[u] + 1
              /\ results'.retried = results.retried]_vars

----------------------------------------------------------------------------
(* Claims about the coordinator when SQS calls fail *)

\* the manual-check queue holds an envelope of message m of queue q
Enveloped(mq, m, q) ==
    \E e \in mq :
        /\ e.Body.value.original_message = m.Body.value
        /\ e.Body.value.source_queue = queues_to_process[q].name
        /\ e.Body.value.retry_count >= MAX_RETRY_ATTEMPTS
        /\ {"error", "failed_at"} \subseteq DOMAIN e.Body.value

\* C11: whenever the coordinator deletes from a source queue a unit that
\* reached the retry ceiling, the manual-check queue holds an envelope with the
\* unit's payload, error, source queue, retry count and failure time
C11_NoSilentDrop ==
    [][\A q \in Queues : \A m \in sqs[q] \ sqs'[q] :
          results'.moved_to_manual > results.moved_to_manual
              => Enveloped(manual', m, q)]_vars

\* C12: the source queues never hold two copies of a unit, whatever the
\* outcome of the send_message and delete_message of a re-enqueue
C12_ReplaceNotAppend ==
    \A u \in Units : Cardinality(UnitMsgs(u)) <= 1

\* a step of the running sweep that needs no failing call
SweepStep ==
    \/ Receive
    \/ ParseError
    \/ CeilingQuarantine
    \/ \E out \in Outcomes : DispatchOk(out)
    \/ \E out \in Outcomes : DispatchFailQuarantine(out)
    \/ \E out \in Outcomes : DispatchFailRequeue(out)
    \/ EndQueue

----------------------------------------------------------------------------
(* Claims on the storage lifecycle *)

\* the stored document
TheDoc == DocId(ContentKey)

\* the record the last request found (apiBefore), with a default for no record
DocBefore == IF TheDoc \in DOMAIN apiBefore THEN apiBefore[TheDoc] ELSE EmptyDict

\* C16: an archive request that finds the record with storage_class GLACIER
\* or DEEP_ARCHIVE returns 409 "Document already archived", issues no call
\* to S3 and leaves the record as it was
C16_ArchiveGuard ==
    [][\A getOk \in BOOLEAN, copy \in CopyOutcomes, updOk \in BOOLEAN :
          ( /\ Archive(TheDoc, getOk, copy, updOk)
            /\ getOk
            /\ TheDoc \in DOMAIN table
            /\ StorageClassOf(table[TheDoc]) \in ARCHIVED_CLASSES )
          => /\ apiResp'.statusCode = 409
             /\ apiResp'.error = "Document already archived"
             /\ s3calls' = s3calls
             /\ objClass' = objClass
             /\ table' = table]_vars

\* an archive request was refused on a record that holds DEEP_ARCHIVE
C16_Witness ==
    /\ apiResp.op = "archive"
    /\ apiResp.statusCode = 409
    /\ TheDoc \in DOMAIN table
    /\ StorageClassOf(table[TheDoc]) = "DEEP_ARCHIVE"
    /\ table = apiBefore

\* C17: after an archive request that returns 200 and whose update_item
\* succeeded, the record holds storage_class GLACIER and no restore_status,
\* whatever restore_status it held before
C17_ArchiveClearsRestore ==
    [][\A getOk \in BOOLEAN, copy \in CopyOutcomes, updOk \in BOOLEAN :
          ( /\ Archive(TheDoc, getOk, copy, updOk)
            /\ apiResp'.statusCode = 200
            /\ apiResp'.update = "ok" )
          => /\ StorageClassOf(table'[TheDoc]) = "GLACIER"
             /\ "restore_status" \notin DOMAIN table'[TheDoc]]_vars

\* how an S3 call can fail
StoreFailures == (CopyOutcomes \cup RestoreOutcomes) \ {"ok"}

\* a step that is an archive or a restore request
IsRequest == apiResp' # apiResp

\* C18 (as stated): archive and restore write the record only after their S3
\* call succeeded, and when that call fails they return 500 and leave the
\* record unchanged
C18_StoreFailureIs500 ==
    [][IsRequest =>
          /\ table' # table => apiResp'.store = "ok"
          /\ apiResp'.store \in StoreFailures =>
                /\ apiResp'.statusCode = 500
                /\ table' = table]_vars

\* C18 (amended): archive and restore write the record only after their S3
\* call succeeded; when that call fails the record is unchanged and the
\* response is an error: 409 when restore_object reports
\* RestoreAlreadyInProgress, 500 for every other failure
C18_StoreFailureKeepsRecord ==
    [][IsRequest =>
          /\ table' # table => apiResp'.store = "ok"
          /\ apiResp'.store \in StoreFailures =>
                /\ apiResp'.statusCode =
                      IF apiResp'.store = "RestoreAlreadyInProgress" THEN 409 ELSE 500
                /\ table' = table]_vars

\* restore_object failed on an archived record and the record is as it was
C18_Witness ==
    /\ apiResp.op = "restore"
    /\ apiResp.store = "ClientError"
    /\ apiResp.statusCode = 500
    /\ TheDoc \in DOMAIN table
    /\ StorageClassOf(table[TheDoc]) \in ARCHIVED_CLASSES
    /\ table = apiBefore

\* C19: when the S3 call of an archive or restore request succeeds and its
\* update_item fails, the request returns 200, made its S3 call once, and
\* the record keeps the fields it had
C19_PartialSuccessIs200 ==
    [][(IsRequest /\ apiResp'.store = "ok" /\ apiResp'.update = "failed") =>
          /\ apiResp'.statusCode = 200
          /\ s3calls' = s3calls + 1
          /\ table' = table]_vars

\* an archive whose copy_object succeeded and whose update_item failed: the
\* object is in GLACIER and the record still is not
C19_Witness ==
    /\ apiResp.op = "archive"
    /\ apiResp.store = "ok"
    /\ apiResp.update = "failed"
    /\ apiResp.statusCode = 200
    /\ objClass = "GLACIER"
    /\ TheDoc \in DOMAIN table
    /\ StorageClassOf(table[TheDoc]) = "STANDARD"
    /\ table = apiBefore

\* days is in [1, 365]
DaysInRange(body) == RestoreDays(body) \in 1..365

\* days is in [1, 365] and tier is one of Standard, Expedited, Bulk
ParamsValid(body) ==
    DaysInRange(body) /\ RestoreTier(body) \in {"Standard", "Expedited", "Bulk"}

\* the record of the stored document, EmptyDict when there is none
DocNow == IF TheDoc \in DOMAIN table THEN table[TheDoc] ELSE EmptyDict

\* C20: a restore request with a JSON body for the stored document returns
\* 400 when days is outside 1..365 or tier is not Standard, Expedited or
\* Bulk; with valid parameters it returns 409 "Document not archived" when
\* the record it finds is not in GLACIER or DEEP_ARCHIVE, and 409 "Restore in
\* progress" when the archived record holds restore_status in_progress; in
\* each of these outcomes it calls no restore_object and the table is as it was
C20_RestoreGuards ==
    \A body \in {b \in RestoreBodies : b.json}, getOk \in BOOLEAN,
       out \in RestoreOutcomes, updOk \in BOOLEAN :
       LET r == RestoreRun(table, TheDoc, body, getOk, out, updOk, now)
           found == getOk /\ TheDoc \in DOMAIN table
           standard == found /\ StorageClassOf(DocNow) \notin ARCHIVED_CLASSES
           running == found /\ GetOr(DocNow, "restore_status", "") = "in_progress"
       IN  /\ ~DaysInRange(body) =>
                r.resp.statusCode = 400 /\ r.resp.error = "Invalid restore days"
           /\ (DaysInRange(body) /\ ~ParamsValid(body)) =>
                r.resp.statusCode = 400 /\ r.resp.error = "Invalid restore tier"
           /\ (ParamsValid(body) /\ standard) =>
                r.resp.statusCode = 409 /\ r.resp.error = "Document not archived"
           /\ (ParamsValid(body) /\ running /\ ~standard) =>
                r.resp.statusCode = 409 /\ r.resp.error = "Restore in progress"
           /\ (~ParamsValid(body) \/ standard \/ running) =>
                r.resp.store = "none" /\ r.table = table

\* a restore request was refused because a restore of the archived record
\* is in progress, and the record is as that request found it
C20_Witness ==
    /\ apiResp.op = "restore"
    /\ apiResp.statusCode = 409
    /\ apiResp.error = "Restore in progress"
    /\ apiResp.store = "none"
    /\ GetOr(DocNow, "restore_status", "") = "in_progress"
    /\ StorageClassOf(DocNow) \in ARCHIVED_CLASSES
    /\ table = apiBefore

\* the restore requests for the stored document that pass every guard of the
\* handler on the table as it is
PassingBodies ==
    {b \in RestoreBodies :
        /\ b.json
        /\ ParamsValid(b)
        /\ TheDoc \in DOMAIN table
        /\ StorageClassOf(DocNow) \in {"GLACIER", "DEEP_ARCHIVE"}
        /\ GetOr(DocNow, "restore_status", "") # "in_progress"}

\* what a passing restore request does, for each way its calls can end
C21_PassingRequest ==
    \A body \in PassingBodies, out \in RestoreOutcomes, updOk \in BOOLEAN :
       LET r == RestoreRun(table, TheDoc, body, TRUE, out, updOk, now)
       IN  /\ r.resp.call = [api |-> "restore_object",
                             Key |-> GetOr(DocNow, "s3key", TheDoc),
                             Days |-> RestoreDays(body), Tier |-> RestoreTier(body)]
           /\ r.resp.store = out
           /\ (out = "ok" /\ updOk) =>
                 /\ r.resp.statusCode = 200
                 /\ r.table[TheDoc]["restore_status"] = "in_progress"
                 /\ r.table[TheDoc]["restore_days"] = RestoreDays(body)
                 /\ r.table[TheDoc]["restore_tier"] = RestoreTier(body)
           /\ r.table # table => (out = "ok" /\ updOk)

\* C21: a restore request that passes every guard on an archived record
\* calls restore_object exactly once, with the days and tier of the request,
\* and, that call and the update_item having succeeded, leaves the record
\* with restore_status in_progress
C21_RestoreIssuesOneRequest ==
    /\ []C21_PassingRequest
    /\ [][(IsRequest /\ apiResp'.call.api = "restore_object") =>
             s3calls' = s3calls + 1]_vars

\* a restore for 365 days at tier Bulk went through: one call with those
\* arguments and the record in_progress
C21_Witness ==
    /\ apiResp.op = "restore"
    /\ apiResp.statusCode = 200
    /\ apiResp.update = "ok"
    /\ apiResp.call.Days = 365
    /\ apiResp.call.Tier = "Bulk"
    /\ s3calls = 1
    /\ GetOr(DocNow, "restore_status", "") = "in_progress"
    /\ GetOr(DocNow, "restore_days", 0) = 365

\* a step that handles a restore-completed event
IsCompletion == nOps' = nOps + 1 /\ lastEvent'.kind = "completed"

\* C22: handling a restore-completed event leaves the record with
\* restore_status restored and with the expiry of the event when it carries
\* one, and handling the same event again right after leaves the record as it
\* was, timestamps excluded
C22_RestoreCompletedIdempotent ==
    [][IsCompletion =>
          /\ TheDoc \in DOMAIN table'
          /\ GetOr(table'[TheDoc], "restore_status", "") = "restored"
          /\ lastEvent'.expiry # "" =>
                GetOr(table'[TheDoc], "restore_expiry", "") = lastEvent'.expiry
          /\ lastEvent'.replay => NoTs(table') = NoTs(table)]_vars

\* the event with an expiry was handled twice in a row
C22_Witness ==
    /\ lastEvent.kind = "completed"
    /\ lastEvent.replay
    /\ lastEvent.expiry = "exp"
    /\ GetOr(DocNow, "restore_status", "") = "restored"
    /\ GetOr(DocNow, "restore_expiry", "") = "exp"
    /\ GetOr(DocNow, "updateddatetime", 0) = now - 1

\* C30: a restore request for a record that is not archived returns 409
\* "Document not archived", and one for an archived record whose restore is
\* in progress returns 409 "Restore in progress", for every days and tier of
\* the request, the invalid ones included
C30_StateGuardsFirst ==
    \A body \in {b \in RestoreBodies : b.json}, out \in RestoreOutcomes, updOk \in BOOLEAN :
       LET r == RestoreRun(table, TheDoc, body, TRUE, out, updOk, now)
           archived == StorageClassOf(DocNow) \in {"GLACIER", "DEEP_ARCHIVE"}
       IN  TheDoc \in DOMAIN table =>
              /\ ~archived =>
                    r.resp.statusCode = 409 /\ r.resp.error = "Document not archived"
              /\ (archived /\ GetOr(DocNow, "restore_status", "") = "in_progress") =>
                    r.resp.statusCode = 409 /\ r.resp.error = "Restore in progress"

----------------------------------------------------------------------------
(* Claims on the creation handler: directory markers and retries *)

\* an invocation ends in this step
InvocationEnds == Len(log') = Len(log) + 1

\* C28: the invocation for a key that ends with "/" returns 200 in the step
\* it starts, having fetched no object (obj stays NoObj), read no record
\* (existing, pc unchanged) and written none (table, creates, lastWrite
\* unchanged)
C28_FolderEventNoOp ==
    [][(InvocationEnds /\ EndsWith(log'[Len(log')].key, <<"/">>)) =>
          /\ log'[Len(log')].status = 200
          /\ log'[Len(log')].obj = NoObj
          /\ log'[Len(log')].began = Len(log)
          /\ UNCHANGED <<table, creates, lastWrite, existing, evObj, pc>>]_vars

\* a directory-marker event was handled while the table held a record
C28_Witness ==
    /\ table # EmptyDict
    /\ \E i \in 1..Len(log) :
          /\ log[i].key = FolderKey
          /\ log[i].status = 200
          /\ \E j \in 1..(i - 1) : log[j].status = 200 /\ log[j].key # FolderKey

\* C27: an invocation whose conditional put collided and whose
\* retry_as_update never succeeded ended with statusCode 500, the handler
\* having raised after exactly 3 attempts; one whose retry succeeded made at
\* most 3 attempts, and no invocation without a collision made any
C27_RetryExhaustionRaises ==
    \A i \in 1..Len(log) :
       /\ log[i].createTry = "ccf" => log[i].status = 500 /\ log[i].attempts = 3
       /\ log[i].createTry = "ccf_updated" =>
             log[i].status = 200 /\ log[i].attempts \in 1..3
       /\ log[i].createTry \notin {"ccf", "ccf_updated"} => log[i].attempts = 0

\* an invocation collided, failed its three attempts and ended with 500
\* while the record it collided with is in the table
C27_Witness ==
    /\ table # EmptyDict
    /\ \E i \in 1..Len(log) :
          /\ log[i].createTry = "ccf"
          /\ log[i].status = 500
          /\ log[i].attempts = 3

----------------------------------------------------------------------------
(* Claims on retry_with_backoff *)

RECURSIVE Pow2(_)
Pow2(n) == IF n = 0 THEN 1 ELSE 2 * Pow2(n - 1)

\* C26: retry_with_backoff calls func at most max_attempts times; a return
\* of func ends it with that value and no further call; the waits are
\* initial_delay, doubled each time, one after each failed attempt but the
\* last; and when each of its max_attempts >= 1 attempts fails it raises
\* the exception of the last one
C26_RetryWithBackoff ==
    /\ rcalls <= rmax
    /\ rcalls \in {Len(rexc), Len(rexc) + 1}
    /\ rpc = "returned" =>
          /\ rcalls = Len(rexc) + 1
          /\ rout.kind = "return"
    /\ rpc = "loop" => rcalls = Len(rexc)
    /\ Len(rwaits) = (IF rmax = 0 THEN 0
                      ELSE IF Len(rexc) < rmax THEN Len(rexc) ELSE rmax - 1)
    /\ \A i \in 1..Len(rwaits) : rwaits[i] = rinit * Pow2(i - 1)
    /\ (rpc = "raised" /\ rmax >= 1) =>
          /\ rcalls = rmax
          /\ Len(rexc) = rmax
          /\ rout = [kind |-> "raise", value |-> rexc[rmax]]

\* three attempts failed with different exceptions: two waits, the second
\* twice the first, and the exception of the third attempt raised
C26_Witness ==
    /\ rpc = "raised"
    /\ rmax = 3
    /\ rexc = <<"E1", "E1", "E2">>
    /\ rinit = 5
    /\ rwaits = <<5, 10>>
    /\ rout.value = "E2"

----------------------------------------------------------------------------
(* Claims on the read path *)

\* the outcome of the head_object of the last retrieve for the stored document
LastHead ==
    IF TheDoc \in DOMAIN readResp.heads THEN readResp.heads[TheDoc]
    ELSE [kind |-> "none", meta |-> EmptyDict]

\* the storage class and the restore state head_object reported
LiveClass == GetOr(LastHead.meta, "StorageClass", "STANDARD")
LiveRestore ==
    IF "Restore" \notin DOMAIN LastHead.meta THEN "none"
    ELSE IF \E i \in 1..Len(LastHead.meta["Restore"]) :
               LastHead.meta["Restore"][i] = "ongoing-request=\"true\""
    THEN "ongoing" ELSE "done"

LiveCold == LiveClass \in {"GLACIER", "DEEP_ARCHIVE"}

\* C23: a retrieve of one document returns a presigned URL only when
\* head_object answered and reported STANDARD or a completed restore; it
\* returns 403 for a cold object with no restore requested and 202 while the
\* restore is ongoing
C23_GrantOnlyWhenConfirmed ==
    readResp.op = "resolve" =>
       /\ readResp.granted =>
             /\ LastHead.kind = "ok"
             /\ ~LiveCold \/ LiveRestore = "done"
       /\ (LastHead.kind = "ok" /\ LiveCold /\ LiveRestore = "none") =>
             readResp.statusCode = 403 /\ ~readResp.granted
       /\ (LastHead.kind = "ok" /\ LiveCold /\ LiveRestore = "ongoing") =>
             readResp.statusCode = 202 /\ ~readResp.granted

\* the restore_status that stands for a restore state of the object ("" for none)
StatusOfRestore(restore) ==
    IF restore = "ongoing" THEN "in_progress"
    ELSE IF restore = "done" THEN "restored" ELSE ""

\* C24: a document carried by the response of a retrieve whose head_object
\* answered has the storage_class and the restore_status that head_object
\* reported, whatever the record holds
C24_ResponseCarriesLiveState ==
    (readResp.statusCode = 200 /\ TheDoc \in DOMAIN readResp.docs /\ LastHead.kind = "ok") =>
       /\ GetOr(readResp.docs[TheDoc], "storage_class", "STANDARD") = LiveClass
       /\ GetOr(readResp.docs[TheDoc], "restore_status", "") = StatusOfRestore(LiveRestore)

\* the storage class of a returned document is the one head_object reported
StorageClassIsLive ==
    (readResp.statusCode = 200 /\ TheDoc \in DOMAIN readResp.docs /\ LastHead.kind = "ok") =>
       GetOr(readResp.docs[TheDoc], "storage_class", "STANDARD") = LiveClass

IsRead == readResp' # readResp

RecordClassIsLive ==
    (TheDoc \in DOMAIN table /\ LastHead.kind = "ok") =>
        GetOr(table[TheDoc], "storage_class", "STANDARD") = LiveClass

\* C25: a read (resolve or list) whose head_object answered for the document
\* leaves the stored record with the storage class head_object reported
C25_StaleRecordHeals == [][IsRead => RecordClassIsLive']_vars

\* the same for the list path alone, when it answers 200
ListHeals ==
    [][(IsRead /\ readResp'.op = "list" /\ readResp'.statusCode = 200) => RecordClassIsLive']_vars

Deleted == DOMAIN table \ DOMAIN table'

IsList == IsRead /\ readResp'.op = "list"

\* C29: a record leaves the table only in a list step whose head_object for
\* it ended with NoSuchKey, and that record is not in the listing; a record
\* whose head_object failed in another way is neither listed nor deleted
C29_OnlyOrphansDeleted ==
    [][/\ \A i \in Deleted :
             /\ IsList
             /\ readResp'.heads[i].kind = "NoSuchKey"
             /\ i \notin DOMAIN readResp'.docs
       /\ IsList =>
             \A i \in DOMAIN readResp'.heads :
                 readResp'.heads[i].kind \notin {"ok", "NoSuchKey"} =>
                     /\ i \notin DOMAIN readResp'.docs
                     /\ i \in DOMAIN table']_vars

C29_Witness ==
    /\ readResp.op = "list"
    /\ readResp.seq = nOps
    /\ readResp.statusCode = 200
    /\ LastHead.kind = "NoSuchKey"
    /\ TheDoc \in DOMAIN apiBefore
    /\ TheDoc \notin DOMAIN table

----------------------------------------------------------------------------
(* Claims on the summaries of process_queue *)

Counted(res) == res.retried + res.moved_to_manual + res.errors

\* the results process_queue is about to return
QueueDone == sweepPc = "process" /\ batch = {}

\* every message received is counted in processed
ProcessedIsReceived == QueueDone => results.processed = received

\* C31: in every summary of process_queue, processed is the number of
\* messages received and equals retried + moved_to_manual + errors
C31_SummaryAccounts ==
    /\ ProcessedIsReceived
    /\ QueueDone => results.processed = Counted(results)
    /\ \A i \in 1..Len(all_results) :
          all_results[i].processed = Counted(all_results[i])

----------------------------------------------------------------------------
(* Claims on one invocation of process_queue *)

\* process_queue passes from its receive to its loop
QueueStarts == sweepPc = "receive" /\ sweepPc' = "process"

\* the messages of unit u that the step took from the batch
TakenOf(u) == {m \in batch \ batch' : UnitOf(m) = u}

\* in one invocation no unit was dispatched twice, and a queue whose URL is
\* empty returned the results it started with
OneDispatchEach ==
    /\ \A u \in DOMAIN dispatches : dispatches[u] <= 1
    /\ \A i \in 1..Len(all_results) :
          ~queue_url[i] => all_results[i] = EmptyResults(queues_to_process[i].name)

\* C32: one process_queue receives at most 10 messages; each dispatch is of a
\* message that leaves the batch, nothing enters the batch after the receive,
\* so a message put back on the queue is not dispatched in this invocation;
\* a queue whose URL is empty is skipped with all counters zero
C32_BatchBounded ==
    /\ []OneDispatchEach
    /\ [][/\ QueueStarts =>
                /\ Cardinality(batch') <= 10
                /\ batch' \subseteq sqs[qi]
                /\ ~queue_url[qi] =>
                      /\ batch' = {}
                      /\ sqs' = sqs
                      /\ results'.processed = 0 /\ Counted(results') = 0
          /\ ~QueueStarts => batch' \subseteq batch
          /\ (sqs'[qi] \ sqs[qi]) \cap batch' = {}
          /\ \A u \in DOMAIN dispatches :
                dispatches'[u] # dispatches[u] =>
                    /\ dispatches'[u] = dispatches[u] + 1
                    /\ Cardinality(TakenOf(u)) = 1]_vars

\* a queue of more than 10 messages was swept: 10 were received, the first
\* was put back after a failed dispatch, and the second queue was skipped
C32_Witness ==
    /\ response # NoResponse
    /\ nUnits > 10
    /\ ~queue_url[2]
    /\ all_results[1].processed = 10
    /\ fails[1] = 1
    /\ Cardinality(sqs[1]) > 1

----------------------------------------------------------------------------
(* Claims on repeated sweeps *)

OnSourceQueue(u) == \E q \in Queues : \E m \in sqs[q] : UnitOf(m) = u

\* C33: under repeated sweeps every unit on a source queue eventually is on
\* none, whatever its body and attributes, and no unit is dispatched more
\* than 3 times
C33_EveryUnitLeaves ==
    /\ [](\A u \in Units : dispatches[u] <= 3)
    /\ \A u \in Units : OnSourceQueue(u) ~> ~OnSourceQueue(u)

\* the same for the units whose body is JSON text
JsonUnitsLeave ==
    \A u \in Units :
        (\E q \in Queues : \E m \in sqs[q] : UnitOf(m) = u /\ m.Body.json)
            ~> ~OnSourceQueue(u)

----------------------------------------------------------------------------
(* Claims on the lifecycle under stale records and concurrent requests *)

\* C34: an archive request that finds the object in a cold tier issues no
\* copy_object, also after an archive whose update_item failed
C34_NoArchiveOfColdObject ==
    [][(IsRequest /\ apiResp'.op = "archive" /\ objClass \in ARCHIVED_CLASSES)
          => apiResp'.store = "none"]_vars

\* no concurrent invocation is between its first and its last call
AllReturned == \A h \in Invocations : hpc[h] \in {"idle", "done"}

\* C35: once the restore request and the completion event of its restore
\* have both finished, the record holds restore_status "restored"
C35_CompletedRestoreIsRestored ==
    (AllReturned /\ objRestore = "done") =>
        GetOr(DocNow, "restore_status", "") = "restored"

\* the invocation passed the checks of the record and has not returned
PastGuard(h) == hpc[h] \in {"call", "update"}

\* two invocations of op are past the checks of the record at once
BothPastGuard(op) ==
    \E h1, h2 \in Invocations :
        h1 # h2 /\ hop[h1] = op /\ hop[h2] = op /\ PastGuard(h1) /\ PastGuard(h2)

\* C36: of two concurrent archive requests, and of two concurrent restore
\* requests, for one document at most one passes the checks of the record
\* and issues its S3 call
C36_OneRequestWins == ~BothPastGuard("archive") /\ ~BothPastGuard("restore")

\* the same for restore requests alone
OneRestoreWins == ~BothPastGuard("restore")

----------------------------------------------------------------------------
(* Claims on how records come into existence *)

\* the ids that get a record in the step
Appearing == DOMAIN table' \ DOMAIN table

\* C37: a record appears only in a step that is a successful conditional
\* put for its id
C37_OnlyCreateCreates ==
    [][\A id \in Appearing :
          id \in DOMAIN creates /\ creates'[id] = creates[id] + 1]_vars

\* the same when no restore event is delivered
OnlyCreateCreatesButRestore ==
    [][lastEvent'.kind # "completed" =>
          \A id \in Appearing :
             id \in DOMAIN creates /\ creates'[id] = creates[id] + 1]_vars

----------------------------------------------------------------------------
(* Claims on the creation handlers and the lifecycle attributes *)

LifecycleKeys == {"storage_class", "archived_date", "restore_status"}

\* the lifecycle attributes a record holds
LifecycleOf(document) == [k \in LifecycleKeys \cap DOMAIN document |-> document[k]]

\* metadata objects whose payload names no lifecycle attribute
PlainMetaObjects == {obj \in MetaObjects : DOMAIN obj.Body \cap LifecycleKeys = {}}

\* what an invocation may have read of record id before the table became
\* what it is: the record as it is, or the record before it had attributes
ReadsOf(id) ==
    {get_existing_record(table, id),
     [found |-> TRUE, item |-> [document_id |-> id]]}

\* tbl holds record id with the lifecycle attributes the table holds
KeepsLifecycle(tbl, id) ==
    id \in DOMAIN tbl /\ LifecycleOf(tbl[id]) = LifecycleOf(table[id])

\* C38: on every table the lifecycle handlers and events can leave, a content
\* event, and a metadata event whose payload names no lifecycle attribute,
\* run alone or writing after a read made earlier, leave storage_class,
\* archived_date and restore_status of every record as they are
C38_CreationKeepsLifecycle ==
    \A id \in DOMAIN table :
       /\ \A obj \in ContentObjects :
             /\ KeepsLifecycle(RunEvent(table, ContentKey, obj, now), id)
             /\ \A ex \in ReadsOf(DocId(ContentKey)) :
                   KeepsLifecycle(UpdateItem(table, DocId(ContentKey),
                                             ContentUpdateData(ContentKey, obj, ex, now)), id)
       /\ \A obj \in PlainMetaObjects :
             /\ KeepsLifecycle(RunEvent(table, MetaKey, obj, now), id)
             /\ ~UpdateRejected(MetaUpdateData(MetaKey, obj, now)) =>
                   KeepsLifecycle(UpdateItem(table, DocId(MetaKey),
                                             MetaUpdateData(MetaKey, obj, now)), id)

\* the object-created event that followed an archive was handled and the
\* record still holds what the archive wrote
C38_Witness ==
    /\ lastEvent.kind = "created"
    /\ apiResp.op = "archive"
    /\ apiResp.update = "ok"
    /\ TheDoc \in DOMAIN table
    /\ GetOr(table[TheDoc], "storage_class", "") = "GLACIER"
    /\ "archived_date" \in DOMAIN table[TheDoc]
    /\ GetOr(table[TheDoc], "updateddatetime", 0) > table[TheDoc]["archived_date"]

----------------------------------------------------------------------------
(* Claims on the document_id *)

\* the ids derived from the keys of the events
DerivedIds == {DocId(k) : k \in EventKeys \ {FolderKey}}

\* C39: every record is keyed by the document_id derived from the key of an
\* event, whatever the metadata payloads hold
C39_RecordsUnderDerivedId == DOMAIN table \subseteq DerivedIds

\* the forms of key handled so far derived one document_id
SameId(forms) ==
    \A f, g \in forms \cap DOMAIN derived : derived[f] = derived[g]

\* C40: the content key and both forms of metadata key of one logical
\* document derive the same document_id, for every id
C40_OneIdPerDocument == SameId(KeyForms)

\* the same for prefix/id.ext and prefix/id.ext.meta.json alone, where the
\* derived id is the id
ExtFormsAgree ==
    /\ SameId({"content", "meta_ext"})
    /\ \A f \in {"content", "meta_ext"} \cap DOMAIN derived : derived[f] = logical.id

\* the same for ids without a dot
DotFreeIdsAgree ==
    (\A i \in 1..Len(logical.id) : logical.id[i] # ".") => SameId(KeyForms)

====
